---- MODULE Spec2Model ----
(***************************************************************************)
(* Team-KPIs: the performance classification and action-item derivation    *)
(* engine (utils/performanceCategories.ts, utils/actionItemsGenerator.ts)  *)
(* and the monthly tracking view that calls it (PerformanceTracking).      *)
(***************************************************************************)
EXTENDS Integers, Sequences, FiniteSets, TLC

(***************************************************************************)
(* JavaScript numbers.  Counters and targets are integers; the quotients   *)
(* the code forms from them are IEEE-754 doubles.  A finite double is      *)
(* modelled exactly: a sign, 53 significand bits (most significant first,  *)
(* the first one set) and the binary exponent of the first bit.            *)
(***************************************************************************)
MantissaBits == 53

IntWidth == 20

\* The quotient is expanded to FracChunks * ChunkBits digits after the point.
FracChunks == 9

Pow2(k) == 2 ^ k

FZero == [sign |-> 1, bits |-> <<>>, exp |-> 0]

\* The non-finite results of a division by zero (x/0, 0/0), kept apart from
\* every integer the model computes with.
Infinity == 2147483647

NaN == -2147483647

\* JavaScript's x <= y on numbers: false whenever an operand is NaN.
JsLe(x, y) == x # NaN /\ y # NaN /\ x <= y

JsLt(x, y) == x # NaN /\ y # NaN /\ x < y

\* q written on w binary digits, most significant first.
IntBits(q, w) == [i \in 1..w |-> (q \div Pow2(w - i)) % 2]

RECURSIVE BitsToInt(_)
BitsToInt(bits) ==
  IF bits = <<>> THEN 0
  ELSE 2 * BitsToInt(SubSeq(bits, 1, Len(bits) - 1)) + bits[Len(bits)]

\* The digits are produced ChunkBits at a time.
ChunkBits == 8

\* The first k * ChunkBits binary digits of r/d (0 <= r < d) after the point,
\* followed by one digit that is set when the rest of the expansion is not
\* zero.
RECURSIVE FracBits(_, _, _)
FracBits(r, d, k) ==
  IF k = 0 THEN << IF r = 0 THEN 0 ELSE 1 >>
  ELSE LET scaled == r * Pow2(ChunkBits)
       IN  IntBits(scaled \div d, ChunkBits) \o FracBits(scaled % d, d, k - 1)

\* Round to nearest, ties to even: the double nearest to the number written
\* by bits, whose first digit has weight 2^e.
RoundBits(sign, bits, e) ==
  LET ones == {i \in 1..Len(bits) : bits[i] = 1}
  IN  IF ones = {} THEN FZero
      ELSE
        LET lead == CHOOSE i \in ones : \A j \in ones : i <= j
            at(i) == IF lead + i - 1 <= Len(bits) THEN bits[lead + i - 1] ELSE 0
            kept == [i \in 1..MantissaBits |-> at(i)]
            roundBit == at(MantissaBits + 1)
            sticky == \E j \in ones : j > lead + MantissaBits
            up == roundBit = 1 /\ (sticky \/ kept[MantissaBits] = 1)
            zeros == {i \in 1..MantissaBits : kept[i] = 0}
            last0 == CHOOSE i \in zeros : \A j \in zeros : j <= i
        IN  IF ~up THEN [sign |-> sign, bits |-> kept, exp |-> e - (lead - 1)]
            ELSE IF zeros = {}
              THEN [sign |-> sign,
                    bits |-> [i \in 1..MantissaBits |-> IF i = 1 THEN 1 ELSE 0],
                    exp |-> e - (lead - 1) + 1]
              ELSE [sign |-> sign,
                    bits |-> [i \in 1..MantissaBits |->
                                IF i < last0 THEN kept[i]
                                ELSE IF i = last0 THEN 1 ELSE 0],
                    exp |-> e - (lead - 1)]

\* n / d for integers n and d > 0.
Fdiv(n, d) ==
  LET m == IF n < 0 THEN -n ELSE n
  IN  RoundBits(IF n < 0 THEN -1 ELSE 1,
                IntBits(m \div d, IntWidth) \o FracBits(m % d, d, FracChunks),
                IntWidth - 1)

\* The digits of bits times the small integer c, from the last digits up.
RECURSIVE MulAcc(_, _, _, _)
MulAcc(bits, c, carry, acc) ==
  IF bits = <<>> THEN IntBits(carry, 7) \o acc
  ELSE LET n == IF Len(bits) < ChunkBits THEN Len(bits) ELSE ChunkBits
           t == BitsToInt(SubSeq(bits, Len(bits) - n + 1, Len(bits))) * c + carry
       IN  MulAcc(SubSeq(bits, 1, Len(bits) - n), c, t \div Pow2(n),
                  IntBits(t % Pow2(n), n) \o acc)

\* x * c for a double x and an integer 0 < c < 128.
Fmul(x, c) ==
  IF x.bits = <<>> THEN FZero
  ELSE RoundBits(x.sign, MulAcc(x.bits, c, 0, <<>>), x.exp + 7)

\* Math.round: the nearest integer, an exact half going towards +Infinity.
MathRound(x) ==
  IF x.bits = <<>> THEN 0
  ELSE
    LET at(p) == LET i == x.exp - p + 1
                 IN  IF i \in 1..Len(x.bits) THEN x.bits[i] ELSE 0
        int == IF x.exp < 0 THEN 0 ELSE BitsToInt(SubSeq(x.bits, 1, x.exp + 1))
        half == at(-1) = 1
        rest == \E i \in 1..Len(x.bits) : i > x.exp + 2 /\ x.bits[i] = 1
    IN  IF x.sign = 1
          THEN int + (IF half THEN 1 ELSE 0)
          ELSE -(int + (IF half /\ rest THEN 1 ELSE 0))

\* Math.round((n / d) * 100) as JavaScript evaluates it.
RoundPercent(n, d) ==
  IF d = 0 THEN (IF n = 0 THEN NaN ELSE IF n > 0 THEN Infinity ELSE -Infinity)
  ELSE MathRound(Fmul(Fdiv(n, d), 100))

(***************************************************************************)
(* utils/performanceCategories.ts                                          *)
(***************************************************************************)
performanceCategories ==
  << [name |-> "Critical", range |-> "0-66%"],
     [name |-> "Bad",      range |-> "67-83%"],
     [name |-> "Target",   range |-> "84-119%"],
     [name |-> "Good",     range |-> "120%+"] >>

\* The bands with their upper bounds left out: 66, 83 and 119 move up a band.
getPerformanceCategory_Exclusive(achievementPercentage) ==
  IF JsLt(achievementPercentage, 66) THEN performanceCategories[1]
  ELSE IF JsLt(achievementPercentage, 83) THEN performanceCategories[2]
  ELSE IF JsLt(achievementPercentage, 119) THEN performanceCategories[3]
  ELSE performanceCategories[4]

getPerformanceCategory(achievementPercentage) ==
  IF JsLe(achievementPercentage, 66) THEN performanceCategories[1]
  ELSE IF JsLe(achievementPercentage, 83) THEN performanceCategories[2]
  ELSE IF JsLe(achievementPercentage, 119) THEN performanceCategories[3]
  ELSE performanceCategories[4]

(***************************************************************************)
(* utils/actionItemsGenerator.ts                                           *)
(***************************************************************************)
kpiNames ==
  << "outreaches", "live_links", "high_da_links", "content_distribution",
     "new_blogs", "blog_optimizations", "top_5_keywords" >>

KpiSet == {kpiNames[i] : i \in 1..Len(kpiNames)}

\* toLowerCase left out: the table is looked up under the category's name.
toLowerCase_Unchanged(name) == name

\* String.prototype.toLowerCase on the four category names.
toLowerCase(name) ==
  CASE name = "Critical" -> "critical"
    [] name = "Bad" -> "bad"
    [] name = "Target" -> "target"
    [] name = "Good" -> "good"

RecommendationTitles ==
  [
  outreaches |->
    [
      critical |-> "Outreach Performance Critical - Immediate Action Required",
      bad |-> "Outreach Performance Below Target - Needs Improvement",
      target |-> "Outreach Performance On Track - Maintain Momentum",
      good |-> "Excellent Outreach Performance - Scale Success"
    ],
  live_links |->
    [
      critical |-> "Link Acquisition Critical - Immediate Intervention Required",
      bad |-> "Link Acquisition Below Target - Strategy Review Needed",
      target |-> "Link Acquisition On Target - Optimize for Quality",
      good |-> "Outstanding Link Acquisition - Maximize Impact"
    ],
  high_da_links |->
    [
      critical |-> "High DA Link Acquisition Critical - Strategic Overhaul Needed",
      bad |-> "High DA Links Below Target - Quality Focus Required",
      target |-> "High DA Link Performance On Track - Maintain Standards",
      good |-> "Exceptional High DA Link Performance - Industry Leadership"
    ],
  content_distribution |->
    [
      critical |-> "Content Distribution Critical - Multi-Channel Strategy Needed",
      bad |-> "Content Distribution Below Target - Channel Expansion Required",
      target |-> "Content Distribution On Track - Optimize Engagement",
      good |-> "Excellent Content Distribution - Maximize Reach"
    ],
  new_blogs |->
    [
      critical |-> "Blog Content Creation Critical - Production Ramp-Up Required",
      bad |-> "Blog Creation Below Target - Workflow Optimization Needed",
      target |-> "Blog Creation On Track - Quality Focus",
      good |-> "Outstanding Blog Production - Content Leadership"
    ],
  blog_optimizations |->
    [
      critical |-> "Blog Optimization Critical - Technical SEO Audit Required",
      bad |-> "Blog Optimization Below Target - Systematic Approach Needed",
      target |-> "Blog Optimization On Track - Maintain Quality",
      good |-> "Excellent Blog Optimization - Advanced Techniques"
    ],
  top_5_keywords |->
    [
      critical |-> "Keyword Rankings Critical - SEO Strategy Overhaul Required",
      bad |-> "Keyword Rankings Below Target - Focused Optimization Required",
      target |-> "Keyword Rankings On Track - Maintain Momentum",
      good |-> "Outstanding Keyword Performance - Expand Dominance"
    ]
  ]

\* The number of recommendation strings of each cell of KPI_RECOMMENDATIONS
\* (the same for each of the seven metrics).
RecommendationCount == [critical |-> 6, bad |-> 5, target |-> 4, good |-> 4]

\* A recommendation string is named by its cell and its position in the cell.
KPI_RECOMMENDATIONS ==
  [k \in KpiSet |->
    [c \in DOMAIN RecommendationTitles[k] |->
      [title |-> RecommendationTitles[k][c],
       recommendations |-> [i \in 1..RecommendationCount[c] |-> <<k, c, i>>]]]]

\* Counters of the model's records range over 0..MaxCount (and the few larger
\* values of ExtraCounts, which the documented examples use).
MaxCount == 120

ExtraCounts == {189, 211, 400}

CounterValues == (0..MaxCount) \cup ExtraCounts

\* Math.round((n / d) * 100), computed once for the quotients met most often.
TableDenominators == {40, 100, 525}

PercentTable ==
  [n \in (-MaxCount)..MaxCount |->
    [d \in TableDenominators |-> RoundPercent(n, d)]]

Percent(n, d) ==
  IF n \in (-MaxCount)..MaxCount /\ d \in TableDenominators
    THEN PercentTable[n][d]
    ELSE RoundPercent(n, d)

\* A PerformanceRecord: id, analyst_id, month (text), year and one counter per
\* metric, read as record[kpiName].  A month is the sequence of its decimal
\* digits, <<0, 9>> for '09'.
PerformanceRecord(id, analyst_id, month, year, counters) ==
  [id |-> id, analyst_id |-> analyst_id, month |-> month, year |-> year]
    @@ counters

\* parseInt on a string of decimal digits.
RECURSIVE parseInt(_)
parseInt(s) ==
  IF Len(s) = 0 THEN NaN
  ELSE IF Len(s) = 1 THEN s[1]
  ELSE 10 * parseInt(SubSeq(s, 1, Len(s) - 1)) + s[Len(s)]

\* new Date(year, monthIndex).getTime(), counted in months instead of
\* milliseconds: both grow strictly with (year, monthIndex).
DateTime(year, monthIndex) == 12 * year + monthIndex

\* Array.prototype.sort with a comparator that subtracts two numeric keys: a
\* stable sort of <<key, element>> pairs by ascending key.
RECURSIVE StableSort(_)
StableSort(s) ==
  IF Len(s) <= 1 THEN s
  ELSE LET rest == StableSort(SubSeq(s, 1, Len(s) - 1))
           x == s[Len(s)]
           pos == Cardinality({i \in 1..Len(rest) : rest[i][1] <= x[1]})
       IN  SubSeq(rest, 1, pos) \o <<x>> \o SubSeq(rest, pos + 1, Len(rest))

\* The last match in place of the first.
FindTarget_Last(targets, kpiName) ==
  LET hits == {i \in 1..Len(targets) : targets[i].kpi_name = kpiName}
  IN  IF hits = {} THEN 0 ELSE CHOOSE i \in hits : \A j \in hits : j <= i

\* Array.prototype.find on t => t.kpi_name === kpiName: the index of the
\* first match, 0 when there is none (undefined).
FindTarget(targets, kpiName) ==
  LET hits == {i \in 1..Len(targets) : targets[i].kpi_name = kpiName}
  IN  IF hits = {} THEN 0 ELSE CHOOSE i \in hits : \A j \in hits : i <= j

\* The comparator the other way round (aDate - bDate): oldest first.
sortedPrevious_OldestFirst(currentRecord, previousRecords) ==
  LET sameAnalyst(record) == record.analyst_id = currentRecord.analyst_id
      filtered == SelectSeq(previousRecords, sameAnalyst)
      keyed == [i \in 1..Len(filtered) |->
                  << DateTime(filtered[i].year, parseInt(filtered[i].month) - 1),
                     filtered[i] >>]
      sorted == StableSort(keyed)
  IN  [i \in 1..Len(filtered) |-> sorted[i][2]]

\* previousRecords.filter(same analyst).sort(latest first)
sortedPrevious(currentRecord, previousRecords) ==
  LET sameAnalyst(record) == record.analyst_id = currentRecord.analyst_id
      filtered == SelectSeq(previousRecords, sameAnalyst)
      \* (a, b) => bDate.getTime() - aDate.getTime()
      keyed == [i \in 1..Len(filtered) |->
                  << -DateTime(filtered[i].year, parseInt(filtered[i].month) - 1),
                     filtered[i] >>]
      sorted == StableSort(keyed)
  IN  [i \in 1..Len(filtered) |-> sorted[i][2]]

\* .sort() called on previousRecords itself, with no .filter() before it:
\* the caller's array is put in the comparator's order.
previousRecordsAfterCall_SortedInPlace(previousRecords) ==
  LET keyed == [i \in 1..Len(previousRecords) |->
                  << -DateTime(previousRecords[i].year,
                               parseInt(previousRecords[i].month) - 1),
                     previousRecords[i] >>]
      sorted == StableSort(keyed)
  IN  [i \in 1..Len(previousRecords) |-> sorted[i][2]]

\* The caller's previousRecords array after a call: .filter() returns a new
\* array and .sort() orders that one in place, so the array passed in keeps
\* its elements and their order.
previousRecordsAfterCall(previousRecords) == previousRecords

\* The dead zone without its two ends: +5 improving, -5 declining.
TrendDirection_Inclusive(changePercentage) ==
  IF changePercentage >= 5 THEN "improving"
  ELSE IF changePercentage <= -5 THEN "declining"
  ELSE "stable"

\* The trend of a changePercentage computed against previousValue > 0.
TrendDirection(changePercentage) ==
  IF changePercentage > 5 THEN "improving"
  ELSE IF changePercentage < -5 THEN "declining"
  ELSE "stable"

\* The else-if branch left out: stable and 0 whatever the current value.
DefaultTrend_Stable(currentValue) ==
  [trend |-> "stable", changePercentage |-> 0]

\* The trend and changePercentage when previousValue > 0 does not hold.
DefaultTrend(currentValue) ==
  IF currentValue > 0
    THEN [trend |-> "improving", changePercentage |-> 100]
    ELSE [trend |-> "stable", changePercentage |-> 0]

analyzeTrend(kpiName, currentRecord, previousRecords) ==
  LET currentValue == currentRecord[kpiName]
      sorted == sortedPrevious(currentRecord, previousRecords)
      \* previousRecord = sortedPrevious[0], undefined for an empty array
      previousValue == IF Len(sorted) > 0 THEN sorted[1][kpiName] ELSE 0
      changePercentage == Percent(currentValue - previousValue, previousValue)
      result == IF previousValue > 0
                  THEN [trend |-> TrendDirection(changePercentage),
                        changePercentage |-> changePercentage]
                  ELSE DefaultTrend(currentValue)
  IN  [kpi |-> kpiName,
       current |-> currentValue,
       previous |-> previousValue,
       trend |-> result.trend,
       changePercentage |-> result.changePercentage]

\* The cases of Bad and Target exchanged.
CategorySeverity_Exchanged(name) ==
  CASE name = "Critical" -> "critical"
    [] name = "Bad" -> "info"
    [] name = "Target" -> "warning"
    [] name = "Good" -> "success"
    [] OTHER -> "info"

Max(a, b) == IF a >= b THEN a ELSE b

\* The severity and the priority the switch on category.name assigns.
CategorySeverity(name) ==
  CASE name = "Critical" -> "critical"
    [] name = "Bad" -> "warning"
    [] name = "Target" -> "info"
    [] name = "Good" -> "success"
    [] OTHER -> "info"

CategoryPriority(name) ==
  CASE name = "Critical" -> 1
    [] name = "Bad" -> 2
    [] name = "Target" -> 3
    [] name = "Good" -> 4
    [] OTHER -> 3

\* The escalation without its exception for Good.
AdjustPriority_AlsoGood(priority, trend, categoryName) ==
  IF trend = "declining"
    THEN Max(1, priority - 1)
    ELSE priority

\* Adjust priority based on trend.
AdjustPriority(priority, trend, categoryName) ==
  IF trend = "declining" /\ categoryName # "Good"
    THEN Max(1, priority - 1)
    ELSE priority

\* The action item of one metric, <<>> when the forEach callback returns
\* without pushing one.  The description template is kept as its parts.
ActionItemFor(kpiName, currentRecord, previousRecords, targets) ==
  LET t == FindTarget(targets, kpiName)
  IN  IF t = 0 THEN <<>>
      ELSE
        LET target == targets[t]
            currentValue == currentRecord[kpiName]
            achievementPercentage == Percent(currentValue, target.monthly_target)
            category == getPerformanceCategory(achievementPercentage)
            trend == analyzeTrend(kpiName, currentRecord, previousRecords)
            kpiRecommendations == KPI_RECOMMENDATIONS[kpiName]
            cell == toLowerCase(category.name)
        IN  IF cell \notin DOMAIN kpiRecommendations THEN <<>>
            ELSE
              << [id |-> <<kpiName, currentRecord.id>>,
                  kpi |-> kpiName,
                  severity |-> CategorySeverity(category.name),
                  title |-> kpiRecommendations[cell].title,
                  description |->
                    [current |-> currentValue,
                     target |-> target.monthly_target,
                     achievement |-> achievementPercentage,
                     trend |-> trend.trend,
                     sign |-> IF trend.changePercentage > 0 THEN "+" ELSE "",
                     change |-> trend.changePercentage],
                  recommendations |-> kpiRecommendations[cell].recommendations,
                  priority |-> AdjustPriority(CategoryPriority(category.name),
                                              trend.trend, category.name)] >>

RECURSIVE CollectItems(_, _, _, _)
CollectItems(i, currentRecord, previousRecords, targets) ==
  IF i > Len(kpiNames) THEN <<>>
  ELSE ActionItemFor(kpiNames[i], currentRecord, previousRecords, targets)
         \o CollectItems(i + 1, currentRecord, previousRecords, targets)

\* The comparator the other way round (b.priority - a.priority).
SortByPriority_Descending(items) ==
  LET sorted == StableSort([i \in 1..Len(items) |-> <<-items[i].priority, items[i]>>])
  IN  [i \in 1..Len(items) |-> sorted[i][2]]

\* Sort by priority (1 = highest priority).
SortByPriority(items) ==
  LET sorted == StableSort([i \in 1..Len(items) |-> <<items[i].priority, items[i]>>])
  IN  [i \in 1..Len(items) |-> sorted[i][2]]

generateActionItems(currentRecord, previousRecords, targets) ==
  SortByPriority(CollectItems(1, currentRecord, previousRecords, targets))

\* getPerformanceCategoryStats(records, targets): the (record, metric) pairs
\* it counts, each with the category of its achievement, and the counters
\* it returns.
CountedPairs(records, targets) ==
  {<<r, i>> \in (1..Len(records)) \X (1..Len(kpiNames)) :
     LET t == FindTarget(targets, kpiNames[i])
     IN  t # 0 /\ targets[t].monthly_target > 0}

PairCategory(records, targets, pair) ==
  LET target == targets[FindTarget(targets, kpiNames[pair[2]])]
      achievement == Percent(records[pair[1]][kpiNames[pair[2]]], target.monthly_target)
  IN  getPerformanceCategory(achievement).name

getPerformanceCategoryStats(records, targets) ==
  LET counted == CountedPairs(records, targets)
      count(name) ==
        Cardinality({p \in counted : PairCategory(records, targets, p) = name})
  IN  [critical |-> count("Critical"),
       bad |-> count("Bad"),
       target |-> count("Target"),
       good |-> count("Good"),
       total |-> Cardinality(counted)]

\* Math.round((currentValue / target.monthly_target) * 100)
Achievement(currentValue, monthly_target) == Percent(currentValue, monthly_target)

(***************************************************************************)
(* AnnualReportGenerator.generateAnnualReport (components/Dashboard.tsx)   *)
(***************************************************************************)
RECURSIVE SumOf(_, _)
SumOf(records, kpiName) ==
  IF records = <<>> THEN 0
  ELSE records[1][kpiName] + SumOf(Tail(records), kpiName)

RECURSIVE SumAchievement(_)
SumAchievement(performances) ==
  IF performances = <<>> THEN 0
  ELSE performances[1].achievement + SumAchievement(Tail(performances))

\* targets.find(t => t.kpi_name === kpiName && t.role === department): the
\* index of the first match, 0 when there is none.
FindRoleTarget(targets, kpiName, department) ==
  LET hits == {i \in 1..Len(targets) :
                 targets[i].kpi_name = kpiName /\ targets[i].role = department}
  IN  IF hits = {} THEN 0 ELSE CHOOSE i \in hits : \A j \in hits : i <= j

\* The report generateAnnualReport sets for a member with records in the
\* year.  A strength or improvement sentence is kept as its parts.
AnnualReport(analyst, performanceRecords, targets) ==
  LET totalPerformance == [k \in KpiSet |-> SumOf(performanceRecords, k)]
      hasTarget(kpiName) ==
        LET t == FindRoleTarget(targets, kpiName, analyst.department)
        IN  t # 0 /\ targets[t].annual_target > 0
      valid == SelectSeq(kpiNames, hasTarget)
      kpiPerformances ==
        [i \in 1..Len(valid) |->
          LET target == targets[FindRoleTarget(targets, valid[i], analyst.department)]
          IN  [kpi |-> valid[i],
               achievement |-> Percent(totalPerformance[valid[i]], target.annual_target),
               target |-> target.annual_target,
               actual |-> totalPerformance[valid[i]]]]
      totalAchievement == SumAchievement(kpiPerformances)
      validKPIs == Len(kpiPerformances)
      averagePerformance ==
        IF validKPIs > 0 THEN MathRound(Fdiv(totalAchievement, validKPIs)) ELSE 0
      exceeded(kpi) == kpi.achievement >= 100
      needs(kpi) == ~(kpi.achievement >= 100) /\ kpi.achievement < 84
      strengths == SelectSeq(kpiPerformances, exceeded)
      improvements == SelectSeq(kpiPerformances, needs)
      latestRecord == performanceRecords[Len(performanceRecords)]
      actionItems ==
        generateActionItems(latestRecord,
                            SubSeq(performanceRecords, 1, Len(performanceRecords) - 1),
                            targets)
      recommendations ==
        [i \in 1..(IF Len(actionItems) < 5 THEN Len(actionItems) ELSE 5) |->
           actionItems[i].recommendations[1]]
  IN  [analyst |-> analyst,
       monthlyRecords |-> performanceRecords,
       totalPerformance |-> totalPerformance,
       averagePerformance |-> averagePerformance,
       performanceGrade |-> getPerformanceCategory(averagePerformance).name,
       strengths |->
         IF Len(strengths) > 0 THEN strengths
         ELSE << [text |-> "Consistent performance across all KPIs"],
                 [text |-> "Reliable team member"] >>,
       improvements |->
         IF Len(improvements) > 0 THEN improvements
         ELSE << [text |-> "Continue maintaining current performance levels"] >>,
       recommendations |->
         IF Len(recommendations) > 0 THEN recommendations
         ELSE << <<"Continue current strategies">>, <<"Focus on consistency">> >>]

(***************************************************************************)
(* Dashboard.getAnalystPerformanceSummary and the Overall Performance cell *)
(* of PerformanceTracking.                                                 *)
(***************************************************************************)
RECURSIVE SumSeq(_)
SumSeq(values) ==
  IF values = <<>> THEN 0 ELSE values[1] + SumSeq(Tail(values))

\* PerformanceTracking.calculateAchievementRate(actual, target)
calculateAchievementRate(actualValue, target) ==
  IF target > 0 THEN Percent(actualValue, target) ELSE 0

\* The mean of a record's achievements over the metrics whose target has
\* monthly_target > 0 (0 when there is none).
TargetedMean(record, targets) ==
  LET targeted(k) == LET t == FindTarget(targets, k)
                     IN  t # 0 /\ targets[t].monthly_target > 0
      valid == SelectSeq(kpiNames, targeted)
      achievements ==
        [i \in 1..Len(valid) |->
           Percent(record[valid[i]], targets[FindTarget(targets, valid[i])].monthly_target)]
  IN  IF Len(valid) = 0 THEN 0
      ELSE MathRound(Fdiv(SumSeq(achievements), Len(valid)))

\* The Overall Performance cell of a row: avgAchievement.
OverallPerformance(record, targets) ==
  LET achievements ==
        [i \in 1..Len(kpiNames) |->
           LET t == FindTarget(targets, kpiNames[i])
           IN  IF t # 0
                 THEN calculateAchievementRate(record[kpiNames[i]],
                                               targets[t].monthly_target)
                 ELSE 0]
  IN  MathRound(Fdiv(SumSeq(achievements), Len(achievements)))

\* The callback of kpiNames.forEach within getAnalystPerformanceSummary,
\* over all metrics: totalAchievement, criticalCount and goodCount of a record.
RecordAchievement(record, targets) ==
  LET targeted(k) == LET t == FindTarget(targets, k)
                     IN  t # 0 /\ targets[t].monthly_target > 0
      valid == SelectSeq(kpiNames, targeted)
      achievements ==
        [i \in 1..Len(valid) |->
           Percent(record[valid[i]], targets[FindTarget(targets, valid[i])].monthly_target)]
      named(name) ==
        Cardinality({i \in 1..Len(valid) :
                       getPerformanceCategory(achievements[i]).name = name})
  IN  [totalAchievement |-> SumSeq(achievements),
       criticalCount |-> named("Critical"),
       goodCount |-> named("Good")]

\* The entry of a member after one more record; entry is <<>> when the
\* member has none yet.  lastMonthData is <<>> for null.
SummaryEntry(entry, record, targets) ==
  LET old == IF entry = <<>>
               THEN [totalRecords |-> 0, totalOutreaches |-> 0, totalLiveLinks |-> 0,
                     totalHighDALinks |-> 0, averagePerformance |-> 0,
                     criticalKPIs |-> 0, goodKPIs |-> 0, lastMonthData |-> <<>>]
               ELSE entry[1]
      kpis == RecordAchievement(record, targets)
      later == \/ old.lastMonthData = <<>>
               \/ DateTime(record.year, parseInt(record.month) - 1)
                    > DateTime(old.lastMonthData[1].year,
                               parseInt(old.lastMonthData[1].month) - 1)
  IN  [totalRecords |-> old.totalRecords + 1,
       totalOutreaches |-> old.totalOutreaches + record.outreaches,
       totalLiveLinks |-> old.totalLiveLinks + record.live_links,
       totalHighDALinks |-> old.totalHighDALinks + record.high_da_links,
       averagePerformance |-> MathRound(Fdiv(kpis.totalAchievement, Len(kpiNames))),
       criticalKPIs |-> old.criticalKPIs + kpis.criticalCount,
       goodKPIs |-> old.goodKPIs + kpis.goodCount,
       lastMonthData |-> IF later THEN << record >> ELSE old.lastMonthData]

\* performanceData.forEach from record i on.  A member is named by
\* record.analysts.name; the model names a member by its analyst_id.
RECURSIVE SummaryFrom(_, _, _, _)
SummaryFrom(analystSummary, performanceData, i, targets) ==
  IF i > Len(performanceData) THEN analystSummary
  ELSE LET record == performanceData[i]
           analystName == record.analyst_id
           entry == IF analystName \in DOMAIN analystSummary
                      THEN << analystSummary[analystName] >> ELSE <<>>
       IN  SummaryFrom([n \in {analystName} |-> SummaryEntry(entry, record, targets)]
                         @@ analystSummary,
                       performanceData, i + 1, targets)

getAnalystPerformanceSummary(performanceData, targets) ==
  SummaryFrom(<<>>, performanceData, 1, targets)

(***************************************************************************)
(* State.                                                                  *)
(***************************************************************************)
VARIABLES
  op,                        \* the operation that acted last
  actual,                    \* a counter of a record
  monthlyTarget,             \* the monthly_target it is measured against
  achievementPercentage,     \* the percentage handed to getPerformanceCategory
  category,                  \* the name of the category it returned
  kpiName,                   \* analyzeTrend's metric
  trend,                     \* analyzeTrend's result
  currentRecord,             \* generateActionItems' arguments ...
  previousRecords,
  targets,
  actionItems,               \* ... and its result
  performance_records,       \* the rows of table performance_records
  kpi_targets,               \* the rows of table kpi_targets
  nextId,                    \* the next row id the store hands out
  performanceRecords,        \* PerformanceTracking's state
  selectedAnalyst,
  selectedYear,
  selectedMonth,
  selectedRecordForActions,  \* <<>> for null, else << the record >>
  analysts,                  \* the rows of table analysts
  nextAnalyst,               \* the number of the next analyst id handed out
  argument,                  \* the last service call's argument: << record >>
  kpi_definitions,           \* the rows of table kpi_definitions
  returned,                  \* the last service call's data: <<>> or << row >>
  activeTab,                 \* activeTab of TargetManagement, and of App
  editingId,                 \* 0 for null
  editValues,
  newTarget,
  showAddModal,
  kpiDefinitions,
  annualEntered,             \* what the user last typed into the annual field
                             \* of each form since it opened: <<>> or << value >>
  reportData,                \* AnnualReportGenerator's state: <<>> for null
  performanceData,           \* Dashboard's state
  roles,                     \* the rows of table roles
  rolesState,                \* TargetManagement's state roles (the list getRoles returned)
  toast,                     \* the notification shown last: "" for none
  formData,                  \* PerformanceTracking's record form: << values >>
  editingRecord,             \* <<>> for null
  showModal,                 \* the record dialog is open
  isAuthenticated,           \* useAuth's state, for each hook instance
  currentUser,               \* <<>> for null
  loading,
  pending,                   \* the call each hook instance awaits: <<>> or << call >>
  localStorage,              \* the session keys: None for an absent key
  timers,                    \* the pending setTimeout callbacks that load the page again
  appError                   \* an error thrown while rendering App has unmounted the application

classifierVars == <<actual, monthlyTarget, achievementPercentage, category>>

trendVars == <<kpiName, trend>>

generatorVars == <<currentRecord, previousRecords, targets, actionItems>>

storeVars == <<performance_records, kpi_targets, nextId>>

viewVars ==
  <<performanceRecords, selectedAnalyst, selectedYear, selectedMonth,
    selectedRecordForActions>>

adminVars ==
  <<analysts, nextAnalyst, argument, kpi_definitions, returned, activeTab, editingId, editValues,
    newTarget, showAddModal, kpiDefinitions, annualEntered, reportData>>

\* The components that call useAuth(): each call is a hook instance with a
\* state of its own.
Hooks == {"App", "Layout", "Login"}

authVars ==
  <<isAuthenticated, currentUser, loading, pending, localStorage, timers, appError>>

appVars ==
  <<performanceData, roles, rolesState, toast, formData, editingRecord, showModal,
    isAuthenticated, currentUser, loading, pending, localStorage, timers, appError>>

vars ==
  <<op, classifierVars, trendVars, generatorVars, storeVars, viewVars, adminVars,
    appVars>>

None == "none"

NoClassifier ==
  /\ actual = 0
  /\ monthlyTarget = 0
  /\ achievementPercentage = 0
  /\ category = None

NoTrend ==
  /\ kpiName = None
  /\ trend = None

NoGenerator ==
  /\ currentRecord = None
  /\ previousRecords = <<>>
  /\ targets = <<>>
  /\ actionItems = <<>>

NoStore ==
  /\ performance_records = {}
  /\ kpi_targets = {}
  /\ nextId = 1
  /\ performanceRecords = <<>>
  /\ selectedAnalyst = ""
  /\ selectedYear = 2025
  /\ selectedMonth = <<>>
  /\ selectedRecordForActions = <<>>

NoAdmin ==
  /\ analysts = {}
  /\ nextAnalyst = 1
  /\ argument = <<>>
  /\ kpi_definitions = {}
  /\ returned = <<>>
  /\ activeTab = "SEO Analyst"
  /\ editingId = 0
  /\ editValues = [monthly_target |-> 0, annual_target |-> 0]
  /\ newTarget = [kpi_name |-> "", monthly_target |-> 0, annual_target |-> 0,
                  role |-> "SEO Analyst"]
  /\ showAddModal = FALSE
  /\ kpiDefinitions = <<>>
  /\ annualEntered = [editValues |-> <<>>, newTarget |-> <<>>]
  /\ reportData = <<>>

NoAuth ==
  /\ isAuthenticated = [h \in Hooks |-> FALSE]
  /\ currentUser = [h \in Hooks |-> <<>>]
  /\ loading = [h \in Hooks |-> TRUE]
  /\ pending = [h \in Hooks |-> <<>>]
  /\ localStorage = [isAuthenticated |-> None, userEmail |-> None, userName |-> None]
  /\ timers = {}
  /\ appError = FALSE

NoApp ==
  /\ performanceData = <<>>
  /\ roles = {}
  /\ rolesState = <<>>
  /\ toast = ""
  /\ formData = <<>>
  /\ editingRecord = <<>>
  /\ showModal = FALSE
  /\ NoAuth

(***************************************************************************)
(* The classifier and the achievement fed to it, on drawn inputs.          *)
(***************************************************************************)
NegativeRange == 40

MinPercentage == -NegativeRange

MaxPercentage == 1000

TargetValues == {0, 40, 95, 525}

InitClassifier ==
  /\ NoTrend /\ NoGenerator /\ NoStore /\ NoAdmin /\ NoApp
  /\ category = None
  /\ \/ /\ op = "percentage"
        /\ achievementPercentage \in MinPercentage..MaxPercentage
        /\ actual = 0
        /\ monthlyTarget = 0
     \/ /\ op = "counter"
        /\ actual \in CounterValues
        /\ monthlyTarget \in TargetValues
        /\ achievementPercentage = 0

\* getPerformanceCategory(achievementPercentage)
Classify ==
  /\ op = "percentage"
  /\ op' = "getPerformanceCategory"
  /\ category' = getPerformanceCategory(achievementPercentage).name
  /\ UNCHANGED <<actual, monthlyTarget, achievementPercentage>>
  /\ UNCHANGED <<trendVars, generatorVars, storeVars, viewVars>>
  /\ UNCHANGED adminVars
  /\ UNCHANGED appVars

\* generateActionItems' achievementPercentage and category of one metric
ComputeAchievement ==
  /\ op = "counter"
  /\ op' = "achievement"
  /\ achievementPercentage' = Achievement(actual, monthlyTarget)
  /\ category' = getPerformanceCategory(achievementPercentage').name
  /\ UNCHANGED <<actual, monthlyTarget>>
  /\ UNCHANGED <<trendVars, generatorVars, storeVars, viewVars>>
  /\ UNCHANGED adminVars
  /\ UNCHANGED appVars

NextClassifier == Classify \/ ComputeAchievement

SpecClassifier == InitClassifier /\ [][NextClassifier]_vars

\* C1: getPerformanceCategory maps every integer percentage to exactly one
\* band: Critical iff p <= 66, Bad iff 67 <= p <= 83, Target iff
\* 84 <= p <= 119, Good iff p >= 120.
C1_BandPartition ==
  op = "getPerformanceCategory" =>
    /\ category \in {"Critical", "Bad", "Target", "Good"}
    /\ category = "Critical" <=> achievementPercentage <= 66
    /\ category = "Bad" <=> (67 <= achievementPercentage /\ achievementPercentage <= 83)
    /\ category = "Target" <=> (84 <= achievementPercentage /\ achievementPercentage <= 119)
    /\ category = "Good" <=> achievementPercentage >= 120

C1_Witness ==
  /\ op = "getPerformanceCategory"
  /\ achievementPercentage = 67
  /\ category = "Bad"

\* round(actual / monthly_target x 100), an exact half rounded up
RoundHalfUp(n, d) == (200 * n + d) \div (2 * d)

\* C2: for actual >= 0 and monthly_target > 0 the achievement fed to the
\* classifier is the non-negative integer round(actual / monthly_target x 100),
\* halves rounded up.
C2_AchievementRoundsHalfUp ==
  (op = "achievement" /\ monthlyTarget > 0) =>
    /\ achievementPercentage >= 0
    /\ achievementPercentage = RoundHalfUp(actual, monthlyTarget)

(***************************************************************************)
(* analyzeTrend on drawn records.                                          *)
(***************************************************************************)
\* Every metric but kpi holds the counter other.
Counters(kpi, value, other) == [k \in KpiSet |-> IF k = kpi THEN value ELSE other]

OtherCount == 7

TrendKpis == {"outreaches", "top_5_keywords"}

PreviousValues == {0, 40, 100, 200}

\* The (analyst_id, month, year) triples of the drawn histories; the row id
\* of a triple is its place in this list.
HistoryKeys ==
  << <<"a1", <<1, 1>>, 2024>>, <<"a1", <<0, 9>>, 2025>>, <<"a1", <<1, 0>>, 2025>>,
     <<"a2", <<1, 2>>, 2024>>, <<"a2", <<1, 0>>, 2025>> >>

HistoryValues == {0, 40, 100}

CurrentValues == {0, 50}

\* The longest drawn history.
MaxHistory == 2

HistoryRecord(i, counters) ==
  PerformanceRecord(i, HistoryKeys[i][1], HistoryKeys[i][2], HistoryKeys[i][3],
                    counters)

\* The histories of at most n rows over distinct triples among keys, with
\* counters among counterSet, in every order; the row c itself may be among
\* them, and no other row has its triple.
RECURSIVE Histories(_, _, _, _, _)
Histories(n, keys, counterSet, c, used) ==
  {<<>>} \cup
  (IF n = 0 THEN {}
   ELSE UNION {
     {<<r>> \o h : h \in Histories(n - 1, keys, counterSet, c, used \cup {r.id})} :
       r \in {HistoryRecord(i, counters) :
                i \in keys \ (used \cup {c.id}), counters \in counterSet}
             \cup (IF c.id \in used THEN {} ELSE {c}) })

TrendCounters(kpi, values) == {Counters(kpi, v, OtherCount) : v \in values}

InitTrendValues ==
  /\ kpiName \in TrendKpis
  /\ currentRecord \in
       {HistoryRecord(3, c) : c \in TrendCounters(kpiName, CounterValues)}
  /\ previousRecords \in
       {<<>>} \cup
       {<< HistoryRecord(2, p) >> : p \in TrendCounters(kpiName, PreviousValues)}

InitTrendHistory ==
  /\ kpiName = "outreaches"
  /\ currentRecord \in
       {HistoryRecord(i, c) :
          i \in {2, 3}, c \in TrendCounters(kpiName, CurrentValues)}
  /\ previousRecords \in
       Histories(MaxHistory, 1..Len(HistoryKeys),
                 TrendCounters(kpiName, HistoryValues), currentRecord, {})

InitTrend ==
  /\ op = "records"
  /\ NoClassifier /\ NoStore /\ NoAdmin /\ NoApp
  /\ trend = None
  /\ targets = <<>>
  /\ actionItems = <<>>
  /\ (InitTrendValues \/ InitTrendHistory)

AnalyzeTrend ==
  /\ op = "records"
  /\ op' = "analyzeTrend"
  /\ trend' = analyzeTrend(kpiName, currentRecord, previousRecords)
  /\ UNCHANGED <<kpiName, classifierVars, generatorVars, storeVars, viewVars>>
  /\ UNCHANGED adminVars
  /\ UNCHANGED appVars

NextTrend == AnalyzeTrend

SpecTrend == InitTrend /\ [][NextTrend]_vars

\* The same-member records of previousRecords, by index.
SameMember == {i \in 1..Len(previousRecords) :
                 previousRecords[i].analyst_id = currentRecord.analyst_id}

\* A two-digit month as a number, and the calendar order of two records.
MonthNumber(month) == 10 * month[1] + month[2]

Earlier(r1, r2) ==
  \/ r1.year < r2.year
  \/ r1.year = r2.year /\ MonthNumber(r1.month) < MonthNumber(r2.month)

\* n is a nearest integer of 100 * num / den (den > 0).
NearestPercent(n, num, den) ==
  /\ 200 * num - den <= 2 * den * n
  /\ 2 * den * n <= 200 * num + den

C7_LatestSameMemberRecord ==
  op = "analyzeTrend" =>
    IF SameMember = {} THEN trend.previous = 0
    ELSE \E i \in SameMember :
           /\ \A j \in SameMember \ {i} :
                Earlier(previousRecords[j], previousRecords[i])
           /\ trend.previous = previousRecords[i][kpiName]
           /\ trend = analyzeTrend(kpiName, currentRecord, << previousRecords[i] >>)

C7_Witness ==
  /\ op = "analyzeTrend"
  /\ Len(previousRecords) = 2
  /\ SameMember = {1, 2}
  /\ Earlier(previousRecords[1], previousRecords[2])
  /\ previousRecords[1][kpiName] # previousRecords[2][kpiName]
  /\ trend.previous = previousRecords[2][kpiName]

(***************************************************************************)
(* generateActionItems on drawn records and targets.                       *)
(***************************************************************************)
\* A KPITarget row; the forms propose annual_target = monthly_target * 13.
KPITarget(id, kpi_name, role, monthly_target) ==
  [id |-> id, kpi_name |-> kpi_name, role |-> role,
   monthly_target |-> monthly_target, annual_target |-> monthly_target * 13]

\* A plan names the metrics that have a target row and gives each its
\* monthly target.
TargetPlans ==
  { [rows |-> KpiSet, monthly |-> [k \in KpiSet |-> 40]],
    [rows |-> KpiSet \ {"live_links", "blog_optimizations"},
     monthly |-> [k \in KpiSet |-> 40]],
    [rows |-> KpiSet,
     monthly |-> [k \in KpiSet |-> IF k = "outreaches" THEN 525
                                   ELSE IF k = "new_blogs" THEN 0 ELSE 40]],
    [rows |-> {}, monthly |-> [k \in KpiSet |-> 40]] }

\* The target rows of a plan, in the order of kpiNames.
RECURSIVE PlanTargets(_, _)
PlanTargets(plan, i) ==
  IF i > Len(kpiNames) THEN <<>>
  ELSE (IF kpiNames[i] \in plan.rows
          THEN << KPITarget(i, kpiNames[i], "SEO Analyst", plan.monthly[kpiNames[i]]) >>
          ELSE <<>>)
       \o PlanTargets(plan, i + 1)

\* The counters of a drawn current record: one value on the metrics of a
\* split, another on the rest.
GeneratorSplits ==
  { {"outreaches", "new_blogs"},
    {"live_links", "content_distribution", "top_5_keywords"} }

GeneratorValues == {0, 30, 38, 50}

\* The record of the documented example: outreaches = 400.
ExampleCounters == [k \in KpiSet |-> IF k = "outreaches" THEN 400 ELSE 38]

GeneratorPrevious == {0, 40, 100}

GeneratorKeys == {1, 2, 4}

\* The longest drawn previousRecords.
MaxPrevious == 2

InitGenerator ==
  /\ op = "arguments"
  /\ NoClassifier /\ NoTrend /\ NoStore /\ NoAdmin /\ NoApp
  /\ actionItems = <<>>
  /\ currentRecord \in
       {HistoryRecord(3, [k \in KpiSet |-> IF k \in split THEN v ELSE w]) :
          split \in GeneratorSplits, v \in GeneratorValues, w \in GeneratorValues}
       \cup {HistoryRecord(3, ExampleCounters)}
  /\ previousRecords \in
       Histories(MaxPrevious, GeneratorKeys,
                 {[k \in KpiSet |-> v] : v \in GeneratorPrevious},
                 currentRecord, {})
  /\ targets \in {PlanTargets(plan, 1) : plan \in TargetPlans}

GenerateActionItems ==
  /\ op = "arguments"
  /\ op' = "generateActionItems"
  /\ actionItems' = generateActionItems(currentRecord, previousRecords, targets)
  /\ previousRecords' = previousRecordsAfterCall(previousRecords)
  /\ UNCHANGED <<currentRecord, targets>>
  /\ UNCHANGED <<classifierVars, trendVars, storeVars, viewVars>>
  /\ UNCHANGED adminVars
  /\ UNCHANGED appVars

\* A second call on the arrays and the record the first call was given.
GenerateActionItemsAgain ==
  /\ op = "generateActionItems"
  /\ op' = "generateActionItems again"
  /\ actionItems' = generateActionItems(currentRecord, previousRecords, targets)
  /\ previousRecords' = previousRecordsAfterCall(previousRecords)
  /\ UNCHANGED <<currentRecord, targets>>
  /\ UNCHANGED <<classifierVars, trendVars, storeVars, viewVars>>
  /\ UNCHANGED adminVars
  /\ UNCHANGED appVars

NextGenerator ==
  \/ GenerateActionItems
  \/ GenerateActionItemsAgain

SpecGenerator == InitGenerator /\ [][NextGenerator]_vars

Generated ==
  \/ op \in {"generateActionItems", "generateActionItems again"}
  \/ op = "PerformanceTracking" /\ selectedRecordForActions # <<>>

\* previousRecords without currentRecord.
WithoutCurrent ==
  LET other(record) == record # currentRecord
  IN  SelectSeq(previousRecords, other)

\* C5: the trend of every metric equals the trend computed with currentRecord
\* removed from the historical list.
C5_CurrentRecordExcluded ==
  Generated =>
    \A i \in 1..Len(actionItems) :
      LET expected == analyzeTrend(actionItems[i].kpi, currentRecord, WithoutCurrent)
      IN  /\ actionItems[i].description.trend = expected.trend
          /\ actionItems[i].description.change = expected.changePercentage

\* The category of an emitted item's achievement.
ItemCategory(item) == getPerformanceCategory(item.description.achievement).name

SeverityOf == [Critical |-> "critical", Bad |-> "warning", Target |-> "info", Good |-> "success"]

BasePriority == [Critical |-> 1, Bad |-> 2, Target |-> 3, Good |-> 4]

\* C8: the severity of every emitted item is determined by the category of
\* its metric alone (Critical critical, Bad warning, Target info, Good
\* success), with base priority 1, 2, 3, 4; outreaches = 400 against
\* monthly_target = 525 is achievement 76, Bad, warning, priority 2 when not
\* declining.
C8_SeverityFromCategory ==
  Generated =>
    \A i \in 1..Len(actionItems) :
      LET item == actionItems[i]
          base == BasePriority[ItemCategory(item)]
      IN  /\ item.severity = SeverityOf[ItemCategory(item)]
          /\ item.priority \in {base, base - 1}
          /\ item.description.trend # "declining" => item.priority = base
          /\ (item.description.current = 400 /\ item.description.target = 525) =>
               /\ item.description.achievement = 76
               /\ item.severity = "warning"
               /\ item.description.trend # "declining" => item.priority = 2

C8_Witness ==
  /\ op = "generateActionItems"
  /\ \E i \in 1..Len(actionItems) :
       /\ actionItems[i].kpi = "outreaches"
       /\ actionItems[i].description.current = 400
       /\ actionItems[i].description.target = 525
       /\ actionItems[i].severity = "warning"
       /\ actionItems[i].priority = 2
  /\ \E i \in 1..Len(actionItems) : actionItems[i].severity = "success"
  /\ \E i \in 1..Len(actionItems) : actionItems[i].severity = "info"

\* C9: an item's priority is its base priority minus 1, floored at 1, exactly
\* when its trend is declining and its category is not Good, and its base
\* priority otherwise: declining Target 2, declining Bad 1, declining
\* Critical 1, declining Good 4.
C9_PriorityEscalation ==
  Generated =>
    \A i \in 1..Len(actionItems) :
      LET item == actionItems[i]
          cat == ItemCategory(item)
          declining == item.description.trend = "declining"
      IN  /\ (declining /\ cat = "Target") => item.priority = 2
          /\ (declining /\ cat = "Bad") => item.priority = 1
          /\ (declining /\ cat = "Critical") => item.priority = 1
          /\ (declining /\ cat = "Good") => item.priority = 4
          /\ ~declining => item.priority = BasePriority[cat]

C9_Witness ==
  /\ op = "generateActionItems"
  /\ \E i \in 1..Len(actionItems) :
       /\ actionItems[i].description.trend = "declining"
       /\ ItemCategory(actionItems[i]) = "Target"
       /\ actionItems[i].priority = 2
  /\ \E i \in 1..Len(actionItems) :
       /\ actionItems[i].description.trend = "declining"
       /\ ItemCategory(actionItems[i]) = "Good"
       /\ actionItems[i].priority = 4

\* The place of a metric in the fixed iteration order.
KpiIndex(kpi) == CHOOSE i \in 1..Len(kpiNames) : kpiNames[i] = kpi

\* C10: the items are returned in non-decreasing priority, and items of equal
\* priority keep the metric iteration order of kpiNames.
C10_SortedStable ==
  Generated =>
    \A i, j \in 1..Len(actionItems) :
      i < j =>
        /\ actionItems[i].priority <= actionItems[j].priority
        /\ actionItems[i].priority = actionItems[j].priority =>
             KpiIndex(actionItems[i].kpi) < KpiIndex(actionItems[j].kpi)

C10_Witness ==
  /\ op = "generateActionItems"
  /\ Len(actionItems) = 7
  /\ \E i, j \in 1..7 :
       /\ i < j
       /\ KpiIndex(actionItems[i].kpi) > KpiIndex(actionItems[j].kpi)
  /\ \E i \in 1..6 : actionItems[i].priority = actionItems[i + 1].priority
  /\ actionItems[1].priority < actionItems[7].priority

\* The targets of the list that carry a metric's kpi_name.
TargetsOf(kpi) == {j \in 1..Len(targets) : targets[j].kpi_name = kpi}

\* The emitted items of a metric.
ItemsOf(kpi) == {i \in 1..Len(actionItems) : actionItems[i].kpi = kpi}

\* C11: generateActionItems returns exactly one item for each of the seven
\* metrics that has a target with that kpi_name in the list and none for a
\* metric without one; every (metric, category) cell of the recommendation
\* table holds a title and 4 to 6 recommendations, so no item is dropped.
C11_OneItemPerTargetedMetric ==
  /\ \A k \in KpiSet :
       \A c \in {toLowerCase(performanceCategories[n].name) : n \in 1..4} :
         /\ c \in DOMAIN KPI_RECOMMENDATIONS[k]
         /\ KPI_RECOMMENDATIONS[k][c].title # ""
         /\ Len(KPI_RECOMMENDATIONS[k][c].recommendations) \in 4..6
  /\ Generated =>
       /\ \A i \in 1..Len(actionItems) : actionItems[i].kpi \in KpiSet
       /\ \A k \in KpiSet :
            Cardinality(ItemsOf(k)) = (IF TargetsOf(k) = {} THEN 0 ELSE 1)

C11_Witness ==
  /\ op = "generateActionItems"
  /\ TargetsOf("live_links") = {}
  /\ TargetsOf("outreaches") # {}
  /\ Len(actionItems) = 5
  /\ previousRecords # <<>>

\* The metrics whose matching target has monthly_target = 0.
ZeroTargetKpis ==
  {k \in KpiSet : LET t == FindTarget(targets, k)
                  IN  t # 0 /\ targets[t].monthly_target = 0}

\* The records of the call: the current one and the historical ones.
CallRecords == <<currentRecord>> \o previousRecords

\* C12: a metric whose matching target has monthly_target = 0 is excluded
\* from every derived output: getPerformanceCategoryStats counts it in no
\* band and not in total, and generateActionItems emits no item for it.
C12_ZeroTargetExcluded ==
  Generated =>
    /\ LET stats == getPerformanceCategoryStats(CallRecords, targets)
       IN  /\ stats.total = Len(CallRecords)
                              * Cardinality({k \in KpiSet : TargetsOf(k) # {}} \ ZeroTargetKpis)
           /\ stats.critical + stats.bad + stats.target + stats.good = stats.total
    /\ \A k \in ZeroTargetKpis : ItemsOf(k) = {}

\* C13: the description of every item carries the change percentage with an
\* explicit sign: '+' whenever changePercentage >= 0 (0 included), and the
\* '-' of the number itself when it is negative.
C13_ExplicitSign ==
  Generated =>
    \A i \in 1..Len(actionItems) :
      LET description == actionItems[i].description
      IN  description.sign = (IF description.change >= 0 THEN "+" ELSE "")

Analysts == {"a1", "a2"}

\* The months and years the record form is filled with; the year select
\* offers 2025 and 2026.
FormMonths == {<<0, 9>>, <<1, 0>>}

FormYears == {2025, 2026}

FormValues == {30, 50}

\* The most rows the model keeps in performance_records.
MaxRecords == 2

\* Text order of two month strings.
RECURSIVE TextLess(_, _)
TextLess(a, b) ==
  IF Len(b) = 0 THEN FALSE
  ELSE IF Len(a) = 0 THEN TRUE
  ELSE IF a[1] # b[1] THEN a[1] < b[1]
  ELSE TextLess(Tail(a), Tail(b))

\* .order('year', desc).order('month', desc): r1 may come before r2.
MayPrecede(r1, r2) ==
  \/ r1.year > r2.year
  \/ r1.year = r2.year /\ ~TextLess(r1.month, r2.month)

\* Every order of rows the query may return them in: rows equal in year and
\* month come in an order the store chooses.
RECURSIVE Ordered(_)
Ordered(rows) ==
  IF rows = {} THEN {<<>>}
  ELSE UNION { {<<r>> \o rest : rest \in Ordered(rows \ {r})} :
               r \in {x \in rows : \A y \in rows : MayPrecede(x, y)} }

\* performanceService.getPerformanceRecords(analystId)
getPerformanceRecords(rows, analystId) ==
  Ordered(IF analystId = "" THEN rows
          ELSE {r \in rows : r.analyst_id = analystId})

\* Alphabetical rank of the role and metric names getKPITargets orders by.
RoleRank == [r \in {"SEO Analyst", "SEO Specialist"} |-> IF r = "SEO Analyst" THEN 1 ELSE 2]

KpiRank ==
  [blog_optimizations |-> 1, content_distribution |-> 2, high_da_links |-> 3,
   live_links |-> 4, new_blogs |-> 5, outreaches |-> 6, top_5_keywords |-> 7]

\* performanceService.getKPITargets(): ordered by role, then kpi_name
getKPITargets(rows) ==
  LET keyed == {<<7 * RoleRank[t.role] + KpiRank[t.kpi_name], t>> : t \in rows}
      pick(n) == CHOOSE k \in keyed :
                   Cardinality({j \in keyed : j[1] < k[1]}) = n - 1
  IN  [n \in 1..Cardinality(rows) |-> pick(n)[2]]

\* A plain insert in place of the upsert: the row is added under a new id.
Upsert_Insert(rows, id, record) == rows \cup {[id |-> id] @@ record}

\* upsert([record], {onConflict: 'analyst_id,month,year'})
Upsert(rows, id, record) ==
  LET same == {r \in rows : /\ r.analyst_id = record.analyst_id
                            /\ r.month = record.month
                            /\ r.year = record.year}
  IN  IF same = {}
        THEN rows \cup {[id |-> id] @@ record}
        ELSE (rows \ same) \cup {[id |-> r.id] @@ record : r \in same}

\* loadData's filteredRecords for one order of the fetched records
FilteredRecords(records, year, month) ==
  LET byYear(record) == record.year = year
      byMonth(record) == record.month = month
      filtered == SelectSeq(records, byYear)
  IN  IF month = <<>> THEN filtered ELSE SelectSeq(filtered, byMonth)

\* getActionItems(): the arguments and the result of its call of
\* generateActionItems, made on every render while the panel is open.
Render(records, selected, viewTargets) ==
  IF selected = <<>>
    THEN /\ currentRecord' = None
         /\ previousRecords' = <<>>
         /\ actionItems' = <<>>
    ELSE LET others(r) == r.analyst_id = selected[1].analyst_id /\ r.id # selected[1].id
         IN  /\ currentRecord' = selected[1]
             /\ previousRecords' = SelectSeq(records, others)
             /\ actionItems' = generateActionItems(selected[1],
                                                   SelectSeq(records, others),
                                                   viewTargets)

\* loadData(): performanceRecords and targets are read back from the store;
\* selectedRecordForActions stays as it is.
LoadData(rows, analystId, year, month) ==
  /\ \E records \in getPerformanceRecords(rows, analystId) :
       performanceRecords' = FilteredRecords(records, year, month)
  /\ targets' = getKPITargets(kpi_targets)
  /\ Render(performanceRecords', selectedRecordForActions, targets')

Init ==
  /\ op = "constructed"
  /\ NoClassifier /\ NoTrend /\ NoGenerator /\ NoAdmin /\ NoApp
  /\ performance_records = {}
  /\ kpi_targets = {PlanTargets([rows |-> KpiSet, monthly |-> [k \in KpiSet |-> 40]], 1)[i] :
                      i \in 1..Len(kpiNames)}
  /\ nextId = 1
  /\ performanceRecords = <<>>
  /\ selectedAnalyst = ""
  /\ selectedYear = 2025
  /\ selectedMonth = <<>>
  /\ selectedRecordForActions = <<>>

\* useEffect(() => { loadData() }) when the view is mounted
Mount ==
  /\ op = "constructed"
  /\ op' = "PerformanceTracking"
  /\ LoadData(performance_records, selectedAnalyst, selectedYear, selectedMonth)
  /\ UNCHANGED <<selectedAnalyst, selectedYear, selectedMonth, selectedRecordForActions>>
  /\ UNCHANGED <<classifierVars, trendVars, storeVars>>
  /\ UNCHANGED adminVars
  /\ UNCHANGED appVars

\* handleSubmit with the form filled in: the record is saved, the form is
\* reset and the list is loaded again.
HandleSubmit ==
  /\ op = "PerformanceTracking"
  /\ \E a \in Analysts, m \in FormMonths, y \in FormYears, v \in FormValues :
       LET formValues == [analyst_id |-> a, month |-> m, year |-> y]
                         @@ [k \in KpiSet |-> v]
           saved == Upsert(performance_records, nextId, formValues)
       IN  /\ Cardinality(saved) <= MaxRecords
           /\ performance_records' = saved
           /\ nextId' = IF Cardinality(saved) > Cardinality(performance_records)
                          THEN nextId + 1 ELSE nextId
           /\ LoadData(saved, selectedAnalyst, selectedYear, selectedMonth)
  /\ UNCHANGED <<op, kpi_targets>>
  /\ UNCHANGED <<selectedAnalyst, selectedYear, selectedMonth, selectedRecordForActions>>
  /\ UNCHANGED <<classifierVars, trendVars>>
  /\ UNCHANGED adminVars
  /\ UNCHANGED appVars

\* The three filters; each change runs loadData again.
SetSelectedAnalyst ==
  /\ op = "PerformanceTracking"
  /\ \E a \in Analysts \cup {""} :
       /\ a # selectedAnalyst
       /\ selectedAnalyst' = a
       /\ LoadData(performance_records, a, selectedYear, selectedMonth)
  /\ UNCHANGED <<op, selectedYear, selectedMonth, selectedRecordForActions>>
  /\ UNCHANGED <<classifierVars, trendVars, storeVars>>
  /\ UNCHANGED adminVars
  /\ UNCHANGED appVars

SetSelectedYear ==
  /\ op = "PerformanceTracking"
  /\ \E y \in FormYears :
       /\ y # selectedYear
       /\ selectedYear' = y
       /\ LoadData(performance_records, selectedAnalyst, y, selectedMonth)
  /\ UNCHANGED <<op, selectedAnalyst, selectedMonth, selectedRecordForActions>>
  /\ UNCHANGED <<classifierVars, trendVars, storeVars>>
  /\ UNCHANGED adminVars
  /\ UNCHANGED appVars

SetSelectedMonth ==
  /\ op = "PerformanceTracking"
  /\ \E m \in FormMonths \cup {<<>>} :
       /\ m # selectedMonth
       /\ selectedMonth' = m
       /\ LoadData(performance_records, selectedAnalyst, selectedYear, m)
  /\ UNCHANGED <<op, selectedAnalyst, selectedYear, selectedRecordForActions>>
  /\ UNCHANGED <<classifierVars, trendVars, storeVars>>
  /\ UNCHANGED adminVars
  /\ UNCHANGED appVars

\* handleShowActionItems(record) on a row of the table
HandleShowActionItems ==
  /\ op = "PerformanceTracking"
  /\ selectedRecordForActions = <<>>
  /\ \E i \in 1..Len(performanceRecords) :
       selectedRecordForActions' = << performanceRecords[i] >>
  /\ Render(performanceRecords, selectedRecordForActions', targets)
  /\ UNCHANGED <<op, performanceRecords, targets>>
  /\ UNCHANGED <<selectedAnalyst, selectedYear, selectedMonth>>
  /\ UNCHANGED <<classifierVars, trendVars, storeVars>>
  /\ UNCHANGED adminVars
  /\ UNCHANGED appVars

\* setSelectedRecordForActions(null): the panel is closed
CloseActionItems ==
  /\ op = "PerformanceTracking"
  /\ selectedRecordForActions # <<>>
  /\ selectedRecordForActions' = <<>>
  /\ Render(performanceRecords, <<>>, targets)
  /\ UNCHANGED <<op, performanceRecords, targets>>
  /\ UNCHANGED <<selectedAnalyst, selectedYear, selectedMonth>>
  /\ UNCHANGED <<classifierVars, trendVars, storeVars>>
  /\ UNCHANGED adminVars
  /\ UNCHANGED appVars

Next ==
  \/ Mount
  \/ HandleSubmit
  \/ SetSelectedAnalyst
  \/ SetSelectedYear
  \/ SetSelectedMonth
  \/ HandleShowActionItems
  \/ CloseActionItems

Spec == Init /\ [][Next]_vars

\* C6: the record analyzeTrend takes as 'previous' is dated strictly earlier
\* in (year, month) than the current record, also for the list the monthly
\* tracking view hands to generateActionItems.
C6_PreviousIsEarlier ==
  (Generated /\ SameMember # {}) =>
    Earlier(sortedPrevious(currentRecord, previousRecords)[1], currentRecord)

(***************************************************************************)
(* The store: tables analysts and performance_records behind              *)
(* analystService and performanceService.                                  *)
(***************************************************************************)
\* gen_random_uuid() never repeats an id: analysts get these, in order.
AnalystIds == <<"a1", "a2", "a3">>

\* The departments analysts are created in, and the year records are
\* written for.
StoreDepartments == {"SEO Analyst"}

StoreYears == {2025}

\* The foreign key dropped: the rows of a deleted analyst stay.
OnDeleteCascade_KeepRows(rows, id) == rows

\* analyst_id uuid REFERENCES analysts(id) ON DELETE CASCADE
OnDeleteCascade(rows, id) == {r \in rows : r.analyst_id # id}

InitStore ==
  /\ op = "store"
  /\ NoClassifier /\ NoTrend /\ NoGenerator /\ NoStore /\ NoAdmin /\ NoApp

\* analystService.createAnalyst(analyst)
CreateAnalyst ==
  /\ op \in {"store", "createAnalyst", "deleteAnalyst",
             "createOrUpdatePerformanceRecord", "createOrUpdatePerformanceRecord throws"}
  /\ nextAnalyst <= Len(AnalystIds)
  /\ \E department \in StoreDepartments :
       LET analyst == [department |-> department]
           row == [id |-> AnalystIds[nextAnalyst]] @@ analyst
       IN  /\ argument' = << analyst >>
           /\ analysts' = analysts \cup {row}
           /\ returned' = << row >>
  /\ nextAnalyst' = nextAnalyst + 1
  /\ op' = "createAnalyst"
  /\ UNCHANGED <<kpi_definitions, activeTab, editingId, editValues, newTarget,
                 showAddModal, kpiDefinitions, annualEntered, reportData>>
  /\ UNCHANGED <<classifierVars, trendVars, generatorVars, storeVars, viewVars>>
  /\ UNCHANGED appVars

\* analystService.deleteAnalyst(id), for an id the store has handed out
DeleteAnalyst ==
  /\ op \in {"store", "createAnalyst", "deleteAnalyst",
             "createOrUpdatePerformanceRecord", "createOrUpdatePerformanceRecord throws"}
  /\ \E n \in 1..(nextAnalyst - 1) :
       LET id == AnalystIds[n]
       IN  /\ argument' = << [id |-> id] >>
           /\ analysts' = {a \in analysts : a.id # id}
           /\ performance_records' = OnDeleteCascade(performance_records, id)
  /\ returned' = <<>>
  /\ op' = "deleteAnalyst"
  /\ UNCHANGED <<nextAnalyst, kpi_definitions, activeTab, editingId, editValues,
                 newTarget, showAddModal, kpiDefinitions, annualEntered, reportData>>
  /\ UNCHANGED <<kpi_targets, nextId>>
  /\ UNCHANGED <<classifierVars, trendVars, generatorVars, viewVars>>
  /\ UNCHANGED appVars

\* performanceService.createOrUpdatePerformanceRecord(record): the upsert
\* fails on the foreign key when no analyst has the record's analyst_id,
\* and the error is thrown.
CreateOrUpdatePerformanceRecord ==
  /\ op \in {"store", "createAnalyst", "deleteAnalyst",
             "createOrUpdatePerformanceRecord", "createOrUpdatePerformanceRecord throws"}
  /\ \E n \in 1..Len(AnalystIds), m \in FormMonths, y \in StoreYears, v \in FormValues :
       LET record == [analyst_id |-> AnalystIds[n], month |-> m, year |-> y]
                       @@ [k \in KpiSet |-> v]
           saved == Upsert(performance_records, nextId, record)
           same(r) == /\ r.analyst_id = record.analyst_id
                      /\ r.month = record.month
                      /\ r.year = record.year
       IN  /\ argument' = << record >>
           /\ IF \E a \in analysts : a.id = record.analyst_id
                THEN /\ Cardinality(saved) <= MaxRecords
                     /\ performance_records' = saved
                     /\ nextId' = IF Cardinality(saved) > Cardinality(performance_records)
                                    THEN nextId + 1 ELSE nextId
                     /\ returned' = << CHOOSE r \in saved : same(r) >>
                     /\ op' = "createOrUpdatePerformanceRecord"
                ELSE /\ UNCHANGED <<performance_records, nextId>>
                     /\ returned' = <<>>
                     /\ op' = "createOrUpdatePerformanceRecord throws"
  /\ UNCHANGED <<analysts, nextAnalyst, kpi_definitions, activeTab, editingId,
                 editValues, newTarget, showAddModal, kpiDefinitions, annualEntered,
                 reportData>>
  /\ UNCHANGED kpi_targets
  /\ UNCHANGED <<classifierVars, trendVars, generatorVars, viewVars>>
  /\ UNCHANGED appVars

NextStore ==
  \/ CreateAnalyst
  \/ DeleteAnalyst
  \/ CreateOrUpdatePerformanceRecord

SpecStore == InitStore /\ [][NextStore]_vars

\* The rows of a table that carry a record's (analyst_id, month, year).
SameTriple(rows, record) ==
  {r \in rows : /\ r.analyst_id = record.analyst_id
                /\ r.month = record.month
                /\ r.year = record.year}

\* C14: after any sequence of createOrUpdatePerformanceRecord calls the store
\* holds at most one record per (analyst_id, month, year); a write for a
\* triple that exists replaces that record's counters with the write's
\* values and leaves the number of records as it was.
C14_OneRecordPerTriple ==
  /\ [](\A r \in performance_records :
          Cardinality(SameTriple(performance_records, r)) = 1)
  /\ [][ (op' = "createOrUpdatePerformanceRecord") =>
           LET record == argument'[1]
               before == SameTriple(performance_records, record)
               after == SameTriple(performance_records', record)
           IN  /\ Cardinality(after) = 1
               /\ \A r \in after : \A k \in KpiSet : r[k] = record[k]
               /\ before # {} =>
                    /\ Cardinality(performance_records')
                         = Cardinality(performance_records)
                    /\ performance_records' \ after = performance_records \ before
         ]_vars

\* A write has replaced the older of two stored records.
C14_Witness ==
  /\ op = "createOrUpdatePerformanceRecord"
  /\ Cardinality(performance_records) = 2
  /\ returned[1].id < nextId - 1
  /\ returned[1].outreaches = 50

\* C17: after deleteAnalyst(id) no performance record with analyst_id = id
\* is in the store, then and in every later state (an id is never handed out
\* again, and a write for an id no analyst has fails); the records of other
\* members are as they were.
C17_DeleteCascades ==
  /\ [](\A r \in performance_records : \E a \in analysts : a.id = r.analyst_id)
  /\ [](\A a \in analysts : \E n \in 1..(nextAnalyst - 1) : a.id = AnalystIds[n])
  /\ [][ (op' = "deleteAnalyst") =>
           /\ \A a \in analysts' : a.id # argument'[1].id
           /\ \A r \in performance_records' : r.analyst_id # argument'[1].id
           /\ \A r \in performance_records :
                r.analyst_id # argument'[1].id => r \in performance_records'
           /\ performance_records' \subseteq performance_records ]_vars

\* An analyst with a record has been deleted, another one's record is kept.
C17_Witness ==
  /\ op = "deleteAnalyst"
  /\ nextId = 3
  /\ Cardinality(performance_records) = 1
  /\ Cardinality(analysts) = 1

(***************************************************************************)
(* Target management (TargetManagement) over tables kpi_targets and        *)
(* kpi_definitions.                                                        *)
(***************************************************************************)
\* The add form is a modal that covers the page: the handlers of the tabs
\* and of the table act while it is closed.
\* The roles of the tabs and the metrics table kpi_definitions holds.
TargetRoles == {"SEO Analyst", "SEO Specialist"}

TargetKpis == {"outreaches"}

\* What the user types into the monthly and the annual fields.
MonthlyInputs == {40, 100}

AnnualInputs == {100}

\* The last id the store hands out to a target row.
MaxTargetId == 3

\* The upsert resolved on kpi_name alone, the key of the first schema: the
\* row of the metric, whatever its role, becomes the target.
createOrUpdateKPITarget_ByName(rows, id, target) ==
  LET same == {r \in rows : r.kpi_name = target.kpi_name}
  IN  IF same = {}
        THEN rows \cup {[id |-> id] @@ target}
        ELSE (rows \ same) \cup {[id |-> (CHOOSE r \in same : TRUE).id] @@ target}

\* upsert([target], {onConflict: 'kpi_name,role'})
createOrUpdateKPITarget(rows, id, target) ==
  LET same == {r \in rows : r.kpi_name = target.kpi_name /\ r.role = target.role}
  IN  IF same = {}
        THEN rows \cup {[id |-> id] @@ target}
        ELSE (rows \ same) \cup {[id |-> r.id] @@ target : r \in same}

\* delete().eq('id', id)
deleteKPITarget(rows, id) == {r \in rows : r.id # id}

\* update({ is_active: false }).eq('id', id)
deleteKPIDefinition(rows, id) ==
  {IF r.id = id THEN [r EXCEPT !.is_active = FALSE] ELSE r : r \in rows}

\* Rank of the display names: 'Live Links', 'Monthly Outreaches', 'New Blog
\* Contributions'.
DisplayRank == [live_links |-> 1, outreaches |-> 2, new_blogs |-> 3]

\* select('*').eq('is_active', true).order('display_name')
getKPIDefinitions(rows) ==
  LET active == {r \in rows : r.is_active}
      pick(n) == CHOOSE r \in active :
                   Cardinality({q \in active :
                                  DisplayRank[q.name] < DisplayRank[r.name]}) = n - 1
  IN  [n \in 1..Cardinality(active) |-> pick(n)]

\* loadAllData(): the targets and the definitions are read back.
LoadAllData(targetRows, definitionRows) ==
  /\ targets' = getKPITargets(targetRows)
  /\ kpiDefinitions' = getKPIDefinitions(definitionRows)

\* The values of op once the component is mounted: the handler that called
\* the store last, "setState" after a handler that only sets state.
TargetHandlers ==
  {"loadAllData", "setState", "handleAddTarget", "handleSave", "handleDeleteTarget"}

InitTargets ==
  /\ op = "TargetManagement"
  /\ NoClassifier /\ NoTrend /\ NoGenerator
  /\ performance_records =
       {HistoryRecord(2, [k \in KpiSet |-> 30]),
        HistoryRecord(3, [k \in KpiSet |-> 50])}
  /\ kpi_targets = {KPITarget(1, "outreaches", "SEO Analyst", 40),
                    KPITarget(2, "outreaches", "SEO Specialist", 100)}
  /\ nextId = 3
  /\ performanceRecords = <<>>
  /\ selectedAnalyst = ""
  /\ selectedYear = 2025
  /\ selectedMonth = <<>>
  /\ selectedRecordForActions = <<>>
  /\ analysts = {[id |-> AnalystIds[1], department |-> "SEO Analyst"]}
  /\ nextAnalyst = 2
  /\ argument = <<>>
  /\ kpi_definitions = {[id |-> 1, name |-> k, is_active |-> TRUE] : k \in TargetKpis}
  /\ returned = <<>>
  /\ activeTab = "SEO Analyst"
  /\ editingId = 0
  /\ editValues = [monthly_target |-> 0, annual_target |-> 0]
  /\ newTarget = [kpi_name |-> "", monthly_target |-> 0, annual_target |-> 0,
                  role |-> "SEO Analyst"]
  /\ showAddModal = FALSE
  /\ kpiDefinitions = <<>>
  /\ annualEntered = [editValues |-> <<>>, newTarget |-> <<>>]
  /\ reportData = <<>>
  /\ NoApp

\* What no handler of the component touches.
TargetFrame ==
  /\ UNCHANGED <<classifierVars, trendVars, viewVars>>
  /\ UNCHANGED <<currentRecord, previousRecords, actionItems>>
  /\ UNCHANGED <<performance_records, analysts, nextAnalyst, reportData>>

\* useEffect(() => { loadAllData() }, [])
MountTargets ==
  /\ op = "TargetManagement"
  /\ op' = "loadAllData"
  /\ LoadAllData(kpi_targets, kpi_definitions)
  /\ UNCHANGED <<kpi_targets, kpi_definitions, nextId, argument, returned, activeTab,
                 editingId, editValues, newTarget, showAddModal, annualEntered>>
  /\ TargetFrame
  /\ UNCHANGED appVars

\* A tab is clicked: setActiveTab(role.name)
SetActiveTab ==
  /\ op \in TargetHandlers
  /\ ~showAddModal
  /\ \E role \in TargetRoles : role # activeTab /\ activeTab' = role
  /\ op' = "setState"
  /\ argument' = <<>>
  /\ returned' = <<>>
  /\ UNCHANGED <<kpi_targets, kpi_definitions, nextId, targets,
                 kpiDefinitions, editingId, editValues, newTarget, showAddModal,
                 annualEntered>>
  /\ TargetFrame
  /\ UNCHANGED appVars

\* 'Add Target': the form opens on the values newTarget holds.
ShowAddModal ==
  /\ op \in TargetHandlers
  /\ ~showAddModal
  /\ newTarget' = [newTarget EXCEPT !.role = activeTab]
  /\ showAddModal' = TRUE
  /\ annualEntered' = [annualEntered EXCEPT !.newTarget = <<>>]
  /\ op' = "setState"
  /\ argument' = <<>>
  /\ returned' = <<>>
  /\ UNCHANGED <<kpi_targets, kpi_definitions, nextId, targets,
                 kpiDefinitions, activeTab, editingId, editValues>>
  /\ TargetFrame
  /\ UNCHANGED appVars

\* The KPI select of the add form, over the loaded definitions.
SetNewTargetKpi ==
  /\ op \in TargetHandlers
  /\ showAddModal
  /\ \E i \in 1..Len(kpiDefinitions) :
       /\ kpiDefinitions[i].name # newTarget.kpi_name
       /\ newTarget' = [newTarget EXCEPT !.kpi_name = kpiDefinitions[i].name]
  /\ op' = "setState"
  /\ argument' = <<>>
  /\ returned' = <<>>
  /\ UNCHANGED <<kpi_targets, kpi_definitions, nextId, targets,
                 kpiDefinitions, activeTab, editingId, editValues, showAddModal,
                 annualEntered>>
  /\ TargetFrame
  /\ UNCHANGED appVars

\* handleMonthlyTargetChange(monthlyValue, true), from the add form
HandleMonthlyTargetChangeNew ==
  /\ op \in TargetHandlers
  /\ showAddModal
  /\ \E monthlyValue \in MonthlyInputs :
       /\ monthlyValue # newTarget.monthly_target
       /\ newTarget' = [newTarget EXCEPT !.monthly_target = monthlyValue,
                                         !.annual_target = monthlyValue * 13]
  /\ op' = "setState"
  /\ argument' = <<>>
  /\ returned' = <<>>
  /\ UNCHANGED <<kpi_targets, kpi_definitions, nextId, targets,
                 kpiDefinitions, activeTab, editingId, editValues, showAddModal,
                 annualEntered>>
  /\ TargetFrame
  /\ UNCHANGED appVars

\* handleMonthlyTargetChange(monthlyValue, false), from the edited row
HandleMonthlyTargetChangeEdit ==
  /\ op \in TargetHandlers
  /\ ~showAddModal
  /\ \E i \in 1..Len(targets) : targets[i].id = editingId /\ targets[i].role = activeTab
  /\ \E monthlyValue \in MonthlyInputs :
       /\ monthlyValue # editValues.monthly_target
       /\ editValues' = [editValues EXCEPT !.monthly_target = monthlyValue,
                                           !.annual_target = monthlyValue * 13]
  /\ op' = "setState"
  /\ argument' = <<>>
  /\ returned' = <<>>
  /\ UNCHANGED <<kpi_targets, kpi_definitions, nextId, targets,
                 kpiDefinitions, activeTab, editingId, newTarget, showAddModal,
                 annualEntered>>
  /\ TargetFrame
  /\ UNCHANGED appVars

\* The annual field of the add form
SetNewAnnualTarget ==
  /\ op \in TargetHandlers
  /\ showAddModal
  /\ \E value \in AnnualInputs :
       /\ newTarget' = [newTarget EXCEPT !.annual_target = value]
       /\ annualEntered' = [annualEntered EXCEPT !.newTarget = << value >>]
  /\ op' = "setState"
  /\ argument' = <<>>
  /\ returned' = <<>>
  /\ UNCHANGED <<kpi_targets, kpi_definitions, nextId, targets,
                 kpiDefinitions, activeTab, editingId, editValues, showAddModal>>
  /\ TargetFrame
  /\ UNCHANGED appVars

\* The annual field of the edited row
SetEditAnnualTarget ==
  /\ op \in TargetHandlers
  /\ ~showAddModal
  /\ \E i \in 1..Len(targets) : targets[i].id = editingId /\ targets[i].role = activeTab
  /\ \E value \in AnnualInputs :
       /\ editValues' = [editValues EXCEPT !.annual_target = value]
       /\ annualEntered' = [annualEntered EXCEPT !.editValues = << value >>]
  /\ op' = "setState"
  /\ argument' = <<>>
  /\ returned' = <<>>
  /\ UNCHANGED <<kpi_targets, kpi_definitions, nextId, targets,
                 kpiDefinitions, activeTab, editingId, newTarget, showAddModal>>
  /\ TargetFrame
  /\ UNCHANGED appVars

\* The row createOrUpdateKPITarget returns for a target.
SavedTarget(rows, target) ==
  CHOOSE r \in rows : r.kpi_name = target.kpi_name /\ r.role = target.role

\* handleAddTarget: the form is submitted with a KPI selected.
HandleAddTarget ==
  /\ op \in TargetHandlers
  /\ showAddModal
  /\ newTarget.kpi_name # ""
  /\ LET saved == createOrUpdateKPITarget(kpi_targets, nextId, newTarget)
         inserted == Cardinality(saved) > Cardinality(kpi_targets)
     IN  /\ inserted => nextId <= MaxTargetId
         /\ argument' = << newTarget >>
         /\ kpi_targets' = saved
         /\ nextId' = IF inserted THEN nextId + 1 ELSE nextId
         /\ returned' = << SavedTarget(saved, newTarget) >>
         /\ LoadAllData(saved, kpi_definitions)
  /\ showAddModal' = FALSE
  /\ newTarget' = [kpi_name |-> "", monthly_target |-> 0, annual_target |-> 0,
                   role |-> activeTab]
  /\ op' = "handleAddTarget"
  /\ UNCHANGED <<kpi_definitions, activeTab, editingId, editValues, annualEntered>>
  /\ TargetFrame
  /\ UNCHANGED appVars

\* 'Cancel' of the add form: setShowAddModal(false)
HideAddModal ==
  /\ op \in TargetHandlers
  /\ showAddModal
  /\ showAddModal' = FALSE
  /\ op' = "setState"
  /\ argument' = <<>>
  /\ returned' = <<>>
  /\ UNCHANGED <<kpi_targets, kpi_definitions, nextId, targets,
                 kpiDefinitions, activeTab, editingId, editValues, newTarget,
                 annualEntered>>
  /\ TargetFrame
  /\ UNCHANGED appVars

\* handleEdit(target) on a row of the active tab that is not being edited
HandleEditTarget ==
  /\ op \in TargetHandlers
  /\ ~showAddModal
  /\ \E i \in 1..Len(targets) :
       /\ targets[i].role = activeTab
       /\ targets[i].id # editingId
       /\ editingId' = targets[i].id
       /\ editValues' = [monthly_target |-> targets[i].monthly_target,
                         annual_target |-> targets[i].annual_target]
  /\ annualEntered' = [annualEntered EXCEPT !.editValues = <<>>]
  /\ op' = "setState"
  /\ argument' = <<>>
  /\ returned' = <<>>
  /\ UNCHANGED <<kpi_targets, kpi_definitions, nextId, targets,
                 kpiDefinitions, activeTab, newTarget, showAddModal>>
  /\ TargetFrame
  /\ UNCHANGED appVars

\* handleSave(target) on the edited row
HandleSave ==
  /\ op \in TargetHandlers
  /\ ~showAddModal
  /\ \E i \in 1..Len(targets) :
       /\ targets[i].id = editingId
       /\ targets[i].role = activeTab
       /\ LET target == [kpi_name |-> targets[i].kpi_name,
                         role |-> targets[i].role,
                         monthly_target |-> editValues.monthly_target,
                         annual_target |-> editValues.annual_target]
              saved == createOrUpdateKPITarget(kpi_targets, nextId, target)
              inserted == Cardinality(saved) > Cardinality(kpi_targets)
          IN  /\ inserted => nextId <= MaxTargetId
              /\ argument' = << target >>
              /\ kpi_targets' = saved
              /\ nextId' = IF inserted THEN nextId + 1 ELSE nextId
              /\ returned' = << SavedTarget(saved, target) >>
              /\ LoadAllData(saved, kpi_definitions)
  /\ editingId' = 0
  /\ op' = "handleSave"
  /\ UNCHANGED <<kpi_definitions, activeTab, editValues, newTarget, showAddModal,
                 annualEntered>>
  /\ TargetFrame
  /\ UNCHANGED appVars

\* handleCancel on the edited row
HandleCancel ==
  /\ op \in TargetHandlers
  /\ ~showAddModal
  /\ \E i \in 1..Len(targets) : targets[i].id = editingId /\ targets[i].role = activeTab
  /\ editingId' = 0
  /\ editValues' = [monthly_target |-> 0, annual_target |-> 0]
  /\ op' = "setState"
  /\ argument' = <<>>
  /\ returned' = <<>>
  /\ UNCHANGED <<kpi_targets, kpi_definitions, nextId, targets,
                 kpiDefinitions, activeTab, newTarget, showAddModal, annualEntered>>
  /\ TargetFrame
  /\ UNCHANGED appVars

\* handleDeleteTarget(id), confirmed, on a row that is not being edited
HandleDeleteTarget ==
  /\ op \in TargetHandlers
  /\ ~showAddModal
  /\ \E i \in 1..Len(targets) :
       /\ targets[i].role = activeTab
       /\ targets[i].id # editingId
       /\ argument' = << [id |-> targets[i].id] >>
       /\ kpi_targets' = deleteKPITarget(kpi_targets, targets[i].id)
       /\ LoadAllData(kpi_targets', kpi_definitions)
  /\ returned' = <<>>
  /\ op' = "handleDeleteTarget"
  /\ UNCHANGED <<kpi_definitions, nextId, activeTab, editingId, editValues, newTarget,
                 showAddModal, annualEntered>>
  /\ TargetFrame
  /\ UNCHANGED appVars

NextTargets ==
  \/ MountTargets
  \/ SetActiveTab
  \/ ShowAddModal
  \/ SetNewTargetKpi
  \/ HandleMonthlyTargetChangeNew
  \/ HandleMonthlyTargetChangeEdit
  \/ SetNewAnnualTarget
  \/ SetEditAnnualTarget
  \/ HandleAddTarget
  \/ HideAddModal
  \/ HandleEditTarget
  \/ HandleSave
  \/ HandleCancel
  \/ HandleDeleteTarget

SpecTargets == InitTargets /\ [][NextTargets]_vars

\* The rows of kpi_targets that carry a target's (kpi_name, role).
SamePair(rows, target) ==
  {r \in rows : r.kpi_name = target.kpi_name /\ r.role = target.role}

\* C15: after any sequence of target additions, inline edits and deletions
\* the store holds at most one target per (kpi_name, role); adding a target
\* for a pair that exists replaces its thresholds, and no second row is made.
C15_OneTargetPerPair ==
  /\ [](\A t \in kpi_targets : Cardinality(SamePair(kpi_targets, t)) = 1)
  /\ [][ (op' \in {"handleAddTarget", "handleSave"}) =>
           LET target == argument'[1]
               before == SamePair(kpi_targets, target)
               after == SamePair(kpi_targets', target)
           IN  /\ Cardinality(after) = 1
               /\ \A r \in after : /\ r.monthly_target = target.monthly_target
                                   /\ r.annual_target = target.annual_target
               /\ before # {} =>
                    /\ Cardinality(kpi_targets') = Cardinality(kpi_targets)
                    /\ kpi_targets' \ after = kpi_targets \ before
         ]_vars

\* The add form has replaced the thresholds of a row the store began with,
\* while the same metric has a row under the other role.
C15_Witness ==
  /\ op = "handleAddTarget"
  /\ returned[1].id = 1
  /\ returned[1].monthly_target = 100
  /\ Cardinality(kpi_targets) = 2
  /\ \A t \in kpi_targets : t.kpi_name = "outreaches"

\* C16: once the user has typed an annual_target into a form, no later change
\* of monthly_target in that form overwrites it: the annual_target saved is
\* the value last typed into the annual field.
C16_AnnualTargetKept ==
  [][ /\ (op' = "handleSave" /\ annualEntered.editValues # <<>>) =>
           returned'[1].annual_target = annualEntered.editValues[1]
      /\ (op' = "handleAddTarget" /\ annualEntered.newTarget # <<>>) =>
           returned'[1].annual_target = annualEntered.newTarget[1] ]_vars

(***************************************************************************)
(* Deactivation of metrics: table kpi_definitions beside the records and   *)
(* targets the classification reads.                                       *)
(***************************************************************************)
\* The metrics that have a row in kpi_definitions, by id.
DefinitionNames == <<"outreaches", "live_links", "new_blogs">>

\* The stored records.
DefinitionRecords ==
  { {HistoryRecord(2, [k \in KpiSet |-> 30]), HistoryRecord(3, [k \in KpiSet |-> 50])},
    {HistoryRecord(3, [k \in KpiSet |-> 38])} }

InitDefinitions ==
  /\ op = "kpi_definitions"
  /\ NoClassifier /\ NoTrend /\ NoGenerator
  /\ performance_records \in DefinitionRecords
  /\ \E plan \in TargetPlans :
       kpi_targets = {PlanTargets(plan, 1)[i] : i \in 1..Len(PlanTargets(plan, 1))}
  /\ nextId = 8
  /\ performanceRecords = <<>>
  /\ selectedAnalyst = ""
  /\ selectedYear = 2025
  /\ selectedMonth = <<>>
  /\ selectedRecordForActions = <<>>
  /\ analysts = {[id |-> AnalystIds[1], department |-> "SEO Analyst"]}
  /\ nextAnalyst = 2
  /\ argument = <<>>
  /\ kpi_definitions = {[id |-> i, name |-> DefinitionNames[i], is_active |-> TRUE] :
                          i \in 1..Len(DefinitionNames)}
  /\ returned = <<>>
  /\ activeTab = "SEO Analyst"
  /\ editingId = 0
  /\ editValues = [monthly_target |-> 0, annual_target |-> 0]
  /\ newTarget = [kpi_name |-> "", monthly_target |-> 0, annual_target |-> 0,
                  role |-> "SEO Analyst"]
  /\ showAddModal = FALSE
  /\ kpiDefinitions = <<>>
  /\ annualEntered = [editValues |-> <<>>, newTarget |-> <<>>]
  /\ reportData = <<>>
  /\ NoApp

\* The deactivation that also deletes the targets of the metric.
DeleteKPIDefinition_WithTargets ==
  /\ \E r \in kpi_definitions :
       /\ r.is_active
       /\ argument' = << [id |-> r.id] >>
       /\ kpi_definitions' = deleteKPIDefinition(kpi_definitions, r.id)
       /\ kpi_targets' = {t \in kpi_targets : t.kpi_name # r.name}
  /\ op' = "deleteKPIDefinition"
  /\ UNCHANGED <<nextId, targets, returned, kpiDefinitions, activeTab, editingId,
                 editValues, newTarget, showAddModal, annualEntered>>
  /\ TargetFrame
  /\ UNCHANGED appVars

\* performanceService.deleteKPIDefinition(id) on an active definition
DeleteKPIDefinition ==
  /\ \E r \in kpi_definitions :
       /\ r.is_active
       /\ argument' = << [id |-> r.id] >>
       /\ kpi_definitions' = deleteKPIDefinition(kpi_definitions, r.id)
  /\ op' = "deleteKPIDefinition"
  /\ UNCHANGED <<kpi_targets, nextId, targets, returned, kpiDefinitions, activeTab,
                 editingId, editValues, newTarget, showAddModal, annualEntered>>
  /\ TargetFrame
  /\ UNCHANGED appVars

\* A form loads the definitions it offers: performanceService.getKPIDefinitions()
GetKPIDefinitions ==
  /\ kpiDefinitions # getKPIDefinitions(kpi_definitions)
  /\ kpiDefinitions' = getKPIDefinitions(kpi_definitions)
  /\ op' = "getKPIDefinitions"
  /\ UNCHANGED <<kpi_targets, kpi_definitions, nextId, targets, argument, returned,
                 activeTab, editingId, editValues, newTarget, showAddModal,
                 annualEntered>>
  /\ TargetFrame
  /\ UNCHANGED appVars

NextDefinitions ==
  \/ DeleteKPIDefinition
  \/ GetKPIDefinitions

SpecDefinitions == InitDefinitions /\ [][NextDefinitions]_vars

\* What the dashboards derive from a store: getPerformanceCategoryStats over
\* the records, and generateActionItems for each record against the other
\* records of its member.
Classification(rows, targetRows) ==
  LET records == CHOOSE s \in getPerformanceRecords(rows, "") : TRUE
      storedTargets == getKPITargets(targetRows)
  IN  [stats |-> getPerformanceCategoryStats(records, storedTargets),
       items |-> [r \in rows |->
                    LET others(x) == x.analyst_id = r.analyst_id /\ x.id # r.id
                    IN  generateActionItems(r, SelectSeq(records, others),
                                            storedTargets)]]

reportYear == 2025

\* .order('month'): r1 may come before r2.
MonthPrecedes(r1, r2) == ~TextLess(r2.month, r1.month)

\* performanceService.getAnalystYearlyPerformance(analystId, year): the rows
\* of the member and year by month; (analyst_id, month, year) is unique, so
\* the order is one.
getAnalystYearlyPerformance(rows, analystId, year) ==
  LET own == {r \in rows : r.analyst_id = analystId /\ r.year = year}
      place(r) == Cardinality({x \in own : MonthPrecedes(x, r)})
  IN  [n \in 1..Cardinality(own) |-> CHOOSE r \in own : place(r) = n]

\* The target rows of one role: a row per metric of kpis, ids from base + 1.
RoleTargets(role, kpis, monthly, annual, base) ==
  { [id |-> base + i, kpi_name |-> kpiNames[i], role |-> role,
     monthly_target |-> monthly, annual_target |-> annual] :
    i \in {j \in 1..Len(kpiNames) : kpiNames[j] \in kpis} }

\* The stores the report is generated from: the targets of the two roles and
\* the records of member a1 (the row of 2024 is outside the report's year).
ReportTargets ==
  { RoleTargets("SEO Analyst", KpiSet, 40, 100, 0)
      \cup RoleTargets("SEO Specialist", KpiSet, 100, 100, 7),
    RoleTargets("SEO Analyst", KpiSet, 40, 100, 0)
      \cup RoleTargets("SEO Specialist", {"outreaches", "live_links"}, 100, 40, 7),
    RoleTargets("SEO Analyst", KpiSet, 40, 100, 0),
    RoleTargets("SEO Specialist", KpiSet, 40, 0, 7),
    {} }

ReportRecords ==
  { {HistoryRecord(1, [k \in KpiSet |-> 40]),
     HistoryRecord(2, [k \in KpiSet |-> a]),
     HistoryRecord(3, [k \in KpiSet |-> IF k = "outreaches" THEN b ELSE 50])} :
    a \in {30, 50}, b \in {38, 50} }
  \cup { {HistoryRecord(3, [k \in KpiSet |-> 38])},
         {HistoryRecord(1, [k \in KpiSet |-> 40])} }

InitReport ==
  /\ op = "AnnualReportGenerator"
  /\ NoClassifier /\ NoTrend /\ NoGenerator
  /\ performance_records \in ReportRecords
  /\ kpi_targets \in ReportTargets
  /\ nextId = 15
  /\ performanceRecords = <<>>
  /\ selectedAnalyst = ""
  /\ selectedYear = reportYear
  /\ selectedMonth = <<>>
  /\ selectedRecordForActions = <<>>
  /\ \E department \in DOMAIN RoleRank :
       analysts = {[id |-> AnalystIds[1], department |-> department]}
  /\ nextAnalyst = 2
  /\ argument = <<>>
  /\ kpi_definitions = {}
  /\ returned = <<>>
  /\ activeTab = "SEO Analyst"
  /\ editingId = 0
  /\ editValues = [monthly_target |-> 0, annual_target |-> 0]
  /\ newTarget = [kpi_name |-> "", monthly_target |-> 0, annual_target |-> 0,
                  role |-> "SEO Analyst"]
  /\ showAddModal = FALSE
  /\ kpiDefinitions = <<>>
  /\ annualEntered = [editValues |-> <<>>, newTarget |-> <<>>]
  /\ reportData = <<>>
  /\ NoApp

ReportFrame ==
  UNCHANGED <<classifierVars, trendVars, currentRecord, previousRecords, actionItems,
              performance_records, kpi_targets, nextId, performanceRecords,
              selectedYear, selectedMonth, selectedRecordForActions, analysts,
              nextAnalyst, argument, kpi_definitions, returned, activeTab,
              editingId, editValues, newTarget, showAddModal, kpiDefinitions,
              annualEntered>>

\* loadData: setTargets(await performanceService.getKPITargets())
LoadReportData ==
  /\ targets # getKPITargets(kpi_targets)
  /\ targets' = getKPITargets(kpi_targets)
  /\ op' = "loadData"
  /\ UNCHANGED <<selectedAnalyst, reportData>>
  /\ ReportFrame
  /\ UNCHANGED appVars

\* The analyst select: setSelectedAnalyst(e.target.value)
SetReportAnalyst ==
  /\ \E id \in {a.id : a \in analysts} \cup {""} :
       /\ id # selectedAnalyst
       /\ selectedAnalyst' = id
  /\ op' = "setSelectedAnalyst"
  /\ UNCHANGED <<targets, reportData>>
  /\ ReportFrame
  /\ UNCHANGED appVars

\* generateAnnualReport(): returns early without a selected analyst or
\* without records of the year.
GenerateAnnualReport ==
  /\ LET found == {a \in analysts : a.id = selectedAnalyst}
         yearly == getAnalystYearlyPerformance(performance_records, selectedAnalyst,
                                               reportYear)
     IN  IF selectedAnalyst = "" \/ found = {} \/ Len(yearly) = 0
           THEN reportData' = reportData
           ELSE reportData' =
                  << AnnualReport(CHOOSE a \in found : TRUE, yearly, targets) >>
  /\ op' = "generateAnnualReport"
  /\ UNCHANGED <<targets, selectedAnalyst>>
  /\ ReportFrame
  /\ UNCHANGED appVars

NextReport ==
  \/ LoadReportData
  \/ SetReportAnalyst
  \/ GenerateAnnualReport

SpecReport == InitReport /\ [][NextReport]_vars

\* The targets of one role, in the order of the list.
TargetsOfRole(list, role) ==
  LET ofRole(t) == t.role = role
  IN  SelectSeq(list, ofRole)

\* C18: the annual report applies to a metric only the target of the member's
\* role: no part of the report changes when the targets of the other roles
\* are taken out of the list.
C18_ReportUsesRoleTargets ==
  [][ (op' = "generateAnnualReport" /\ reportData' # <<>>) =>
        LET report == reportData'[1]
        IN  report = AnnualReport(report.analyst, report.monthlyRecords,
                                  TargetsOfRole(targets, report.analyst.department))
    ]_vars

(***************************************************************************)
(* Dashboard (components/Dashboard.tsx): the per-member summary.           *)
(***************************************************************************)
\* The stored records the dashboard is loaded from: two months of member a1
\* and, in some, one month of member a2.
SummaryRecords ==
  { {HistoryRecord(2, [k \in KpiSet |-> a]), HistoryRecord(3, [k \in KpiSet |-> b])}
      \cup extra :
    a \in FormValues, b \in FormValues,
    extra \in { {}, {HistoryRecord(5, [k \in KpiSet |-> 30])},
                {HistoryRecord(5, [k \in KpiSet |-> 50])} } }

InitSummary ==
  /\ op = "Dashboard"
  /\ NoClassifier /\ NoTrend /\ NoGenerator /\ NoAdmin /\ NoApp
  /\ performance_records \in SummaryRecords
  /\ \E plan \in TargetPlans :
       kpi_targets = {PlanTargets(plan, 1)[i] : i \in 1..Len(PlanTargets(plan, 1))}
  /\ nextId = 8
  /\ performanceRecords = <<>>
  /\ selectedAnalyst = ""
  /\ selectedYear = 2025
  /\ selectedMonth = <<>>
  /\ selectedRecordForActions = <<>>

SummaryFrame ==
  /\ UNCHANGED <<classifierVars, trendVars, storeVars, viewVars>>
  /\ UNCHANGED <<currentRecord, previousRecords, actionItems>>
  /\ UNCHANGED <<analysts, nextAnalyst, argument, kpi_definitions, activeTab, editingId,
                 editValues, newTarget, showAddModal, kpiDefinitions, annualEntered,
                 reportData>>
  /\ UNCHANGED <<roles, rolesState, toast, formData, editingRecord, showModal>>
  /\ UNCHANGED authVars

\* loadDashboardData(): setPerformanceData and setTargets from the store
LoadDashboardData ==
  /\ op = "Dashboard"
  /\ \E records \in getPerformanceRecords(performance_records, "") :
       performanceData' = records
  /\ targets' = getKPITargets(kpi_targets)
  /\ op' = "loadDashboardData"
  /\ UNCHANGED returned
  /\ SummaryFrame

\* A render of the dashboard: getAnalystPerformanceSummary()
GetAnalystPerformanceSummary ==
  /\ op = "loadDashboardData"
  /\ returned' = << getAnalystPerformanceSummary(performanceData, targets) >>
  /\ op' = "getAnalystPerformanceSummary"
  /\ UNCHANGED <<performanceData, targets>>
  /\ SummaryFrame

NextSummary ==
  \/ LoadDashboardData
  \/ GetAnalystPerformanceSummary

SpecSummary == InitSummary /\ [][NextSummary]_vars

Targeted(list) ==
  {k \in KpiSet : LET t == FindTarget(list, k)
                  IN  t # 0 /\ list[t].monthly_target > 0}

\* C21: a member's average achievement is the mean over the metrics whose
\* target has monthly_target > 0: for a member with one record, the
\* summary's averagePerformance, and for every row the Overall Performance
\* value, equal the mean of the achievements of the targeted metrics.
C21_MeanOverTargetedMetrics ==
  (op = "getAnalystPerformanceSummary" /\ Targeted(targets) # {}) =>
    \A i \in 1..Len(performanceData) :
      LET record == performanceData[i]
          entry == returned[1][record.analyst_id]
      IN  /\ entry.totalRecords = 1 =>
               entry.averagePerformance = TargetedMean(record, targets)
          /\ OverallPerformance(record, targets) = TargetedMean(record, targets)

\* The arrangements of a sequence.
Arrangements(seq) ==
  LET n == Len(seq)
      bijections == {p \in [1..n -> 1..n] : \A i, j \in 1..n : p[i] = p[j] => i = j}
  IN  {[i \in 1..n |-> seq[p[i]]] : p \in bijections}

\* C28: the summary does not depend on the order of the records: for every
\* arrangement of performanceData each member's averagePerformance,
\* criticalKPIs, goodKPIs and totals are those of the summary shown.
C28_SummaryOrderIndependent ==
  op = "getAnalystPerformanceSummary" =>
    \A arranged \in Arrangements(performanceData) :
      LET other == getAnalystPerformanceSummary(arranged, targets)
      IN  \A name \in DOMAIN returned[1] :
            /\ other[name].averagePerformance = returned[1][name].averagePerformance
            /\ other[name].criticalKPIs = returned[1][name].criticalKPIs
            /\ other[name].goodKPIs = returned[1][name].goodKPIs
            /\ other[name].totalRecords = returned[1][name].totalRecords
            /\ other[name].totalOutreaches = returned[1][name].totalOutreaches
            /\ other[name].totalLiveLinks = returned[1][name].totalLiveLinks
            /\ other[name].totalHighDALinks = returned[1][name].totalHighDALinks

(***************************************************************************)
(* Roles: table roles, the role list of TargetManagement and the grading   *)
(* of records against the targets of several roles.                        *)
(***************************************************************************)
\* performanceService.getRoles(): the active roles by name
getRoles(rows) ==
  LET active == {r \in rows : r.is_active}
      place(r) == Cardinality({x \in active : RoleRank[x.name] <= RoleRank[r.name]})
  IN  [n \in 1..Cardinality(active) |-> CHOOSE r \in active : place(r) = n]

\* performanceService.deleteRole(id): update({is_active: false}).eq('id', id)
\* on table roles; store holds the tables roles and kpi_targets.
deleteRole(store, id) ==
  [roles |-> {IF r.id = id THEN [r EXCEPT !.is_active = FALSE] ELSE r :
                r \in store.roles},
   kpi_targets |-> store.kpi_targets]

InitRoles ==
  /\ op = "TargetManagement"
  /\ NoClassifier /\ NoTrend
  /\ currentRecord = None
  /\ previousRecords = <<>>
  /\ actionItems = <<>>
  /\ performance_records \in ReportRecords
  /\ kpi_targets \in ReportTargets
  /\ targets = getKPITargets(kpi_targets)
  /\ nextId = 15
  /\ performanceRecords = <<>>
  /\ selectedAnalyst = ""
  /\ selectedYear = 2025
  /\ selectedMonth = <<>>
  /\ selectedRecordForActions = <<>>
  /\ \E department \in DOMAIN RoleRank :
       analysts = {[id |-> AnalystIds[1], department |-> department]}
  /\ nextAnalyst = 2
  /\ argument = <<>>
  /\ kpi_definitions = {}
  /\ returned = <<>>
  /\ activeTab = "SEO Analyst"
  /\ editingId = 0
  /\ editValues = [monthly_target |-> 0, annual_target |-> 0]
  /\ newTarget = [kpi_name |-> "", monthly_target |-> 0, annual_target |-> 0,
                  role |-> "SEO Analyst"]
  /\ showAddModal = FALSE
  /\ kpiDefinitions = <<>>
  /\ annualEntered = [editValues |-> <<>>, newTarget |-> <<>>]
  /\ reportData = <<>>
  /\ performanceData = <<>>
  /\ roles = {[id |-> RoleRank[name], name |-> name, is_active |-> TRUE] :
                name \in DOMAIN RoleRank}
  /\ rolesState = getRoles(roles)
  /\ toast = ""
  /\ formData = <<>>
  /\ editingRecord = <<>>
  /\ showModal = FALSE
  /\ NoAuth

RolesFrame ==
  /\ UNCHANGED <<classifierVars, trendVars, viewVars>>
  /\ UNCHANGED <<performance_records, nextId, analysts, nextAnalyst, kpi_definitions,
                 returned, editingId, editValues, newTarget, showAddModal,
                 kpiDefinitions, annualEntered, reportData>>
  /\ UNCHANGED <<performanceData, formData, editingRecord, showModal>>
  /\ UNCHANGED authVars

\* handleDeleteRole(roleId, roleName) on a row of the role list; the user
\* answers the confirmation, and the store call succeeds or throws.
HandleDeleteRole ==
  /\ \E i \in 1..Len(rolesState), confirmed \in BOOLEAN, throws \in BOOLEAN :
       LET roleId == rolesState[i].id
           roleName == rolesState[i].name
           store == deleteRole([roles |-> roles, kpi_targets |-> kpi_targets], roleId)
           keep(r) == r.id # roleId
           remainingRoles == SelectSeq(rolesState, keep)
       IN  /\ argument' = << [roleId |-> roleId, roleName |-> roleName,
                             confirmed |-> confirmed] >>
           /\ IF ~confirmed
                THEN UNCHANGED <<roles, kpi_targets, toast, activeTab, rolesState, targets>>
                ELSE IF throws
                  THEN /\ toast' = "Failed to delete role"
                       /\ UNCHANGED <<roles, kpi_targets, activeTab, rolesState, targets>>
                  ELSE /\ roles' = store.roles
                       /\ kpi_targets' = store.kpi_targets
                       /\ toast' = "Role deleted successfully"
                       /\ activeTab' = IF activeTab = roleName /\ Len(remainingRoles) > 0
                                         THEN remainingRoles[1].name
                                         ELSE activeTab
                       /\ rolesState' = getRoles(store.roles)
                       /\ targets' = getKPITargets(store.kpi_targets)
  /\ op' = "handleDeleteRole"
  /\ UNCHANGED <<currentRecord, previousRecords, actionItems>>
  /\ RolesFrame

\* PerformanceTracking.getActionItems() for a stored record, on the targets
\* list getKPITargets returned.
GetActionItems ==
  /\ \E r \in performance_records :
       \E records \in getPerformanceRecords(performance_records, "") :
         LET others(x) == x.analyst_id = r.analyst_id /\ x.id # r.id
         IN  /\ currentRecord' = r
             /\ previousRecords' = SelectSeq(records, others)
             /\ actionItems' = generateActionItems(r, SelectSeq(records, others), targets)
  /\ op' = "getActionItems"
  /\ argument' = <<>>
  /\ UNCHANGED <<roles, kpi_targets, toast, activeTab, rolesState, targets>>
  /\ RolesFrame

NextRoles ==
  \/ HandleDeleteRole
  \/ GetActionItems

SpecRoles == InitRoles /\ [][NextRoles]_vars

\* C23: after a deletion of a role that succeeded, getKPITargets returns no
\* target of that role.
C23_DeleteRoleRemovesTargets ==
  [][ (op' = "handleDeleteRole" /\ toast' = "Role deleted successfully"
         /\ argument'[1].confirmed) =>
        \A i \in 1..Len(getKPITargets(kpi_targets')) :
          getKPITargets(kpi_targets')[i].role # argument'[1].roleName ]_vars

\* The stored targets of a metric, and among them the one of the
\* alphabetically first role.
Defining(kpi) == {t \in kpi_targets : t.kpi_name = kpi}

FirstRoleTarget(kpi) ==
  CHOOSE t \in Defining(kpi) : \A u \in Defining(kpi) : RoleRank[t.role] <= RoleRank[u.role]

\* C30: with the list as getKPITargets returns it, every record is graded
\* against the target of the alphabetically first role that defines the
\* metric, whatever the role of its member: the item of a metric carries
\* that target and the category of the achievement against it, and
\* getPerformanceCategoryStats counts as it would on those targets alone.
C30_GradedAgainstFirstRole ==
  op = "getActionItems" =>
    /\ \A k \in KpiSet :
         IF Defining(k) = {} THEN ItemsOf(k) = {}
         ELSE \E i \in 1..Len(actionItems) :
                LET item == actionItems[i]
                    achievement == Percent(currentRecord[k],
                                           FirstRoleTarget(k).monthly_target)
                IN  /\ ItemsOf(k) = {i}
                    /\ item.description.target = FirstRoleTarget(k).monthly_target
                    /\ item.description.achievement = achievement
                    /\ item.severity =
                         CategorySeverity(getPerformanceCategory(achievement).name)
    /\ getPerformanceCategoryStats(<<currentRecord>>, targets)
         = getPerformanceCategoryStats(
             <<currentRecord>>,
             getKPITargets({FirstRoleTarget(k) : k \in {x \in KpiSet : Defining(x) # {}}}))

\* The list in the opposite order.
Reversed(list) == [i \in 1..Len(list) |-> list[Len(list) + 1 - i]]

\* A member of role 'SEO Specialist' whose role has a target of its own for
\* outreaches is graded against the target of 'SEO Analyst', and the items
\* for the reversed list differ in severity or priority.
C30_Witness ==
  /\ op = "getActionItems"
  /\ \E a \in analysts : a.id = currentRecord.analyst_id /\ a.department = "SEO Specialist"
  /\ \E t \in Defining("outreaches") : t.role = "SEO Specialist" /\ t.monthly_target = 100
  /\ FirstRoleTarget("outreaches").role = "SEO Analyst"
  /\ \E i \in ItemsOf("outreaches") : actionItems[i].description.target = 40
  /\ LET other == generateActionItems(currentRecord, previousRecords, Reversed(targets))
     IN  \E i \in 1..Len(actionItems), j \in 1..Len(other) :
           /\ actionItems[i].kpi = other[j].kpi
           /\ actionItems[i].severity # other[j].severity
           /\ actionItems[i].priority # other[j].priority

(***************************************************************************)
(* PerformanceTracking (components/Reports.tsx): the record dialog.        *)
(***************************************************************************)
\* The fields of the form, in the order of their inputs.
FormFields == {"analyst_id", "month", "year"} \cup KpiSet

\* month.padStart(2, '0')
PadStart2(month) == IF Len(month) < 2 THEN <<0>> \o month ELSE month

\* The form as useState and resetForm set it; the month and year of new
\* Date() are the arguments.
EmptyForm(month, year) ==
  [analyst_id |-> "", month |-> month, year |-> year] @@ [k \in KpiSet |-> 0]

\* What handleEdit(record) puts into the form.
FormOf(record) ==
  [f \in FormFields |-> IF f = "month" THEN PadStart2(record.month) ELSE record[f]]

\* The catch block also closes the dialog and resets the form.
SubmitFailed_ResetForm(dialog) ==
  [toast |-> "Failed to save performance record",
   formData |-> << EmptyForm(<<1, 0>>, 2025) >>,
   editingRecord |-> <<>>,
   showModal |-> FALSE]

\* The catch block of handleSubmit: toast.error and nothing else.
SubmitFailed(dialog) ==
  [toast |-> "Failed to save performance record",
   formData |-> dialog.formData,
   editingRecord |-> dialog.editingRecord,
   showModal |-> dialog.showModal]

\* The stores the view is opened on.
DialogRecords ==
  { {HistoryRecord(3, [k \in KpiSet |-> 50])},
    {HistoryRecord(2, [k \in KpiSet |-> 30]), HistoryRecord(3, [k \in KpiSet |-> 50])} }

InitDialog ==
  /\ op = "PerformanceTracking"
  /\ NoClassifier /\ NoTrend /\ NoGenerator
  /\ performance_records \in DialogRecords
  /\ kpi_targets = {}
  /\ nextId = 6
  /\ \E records \in getPerformanceRecords(performance_records, "") :
       performanceRecords = FilteredRecords(records, 2025, <<>>)
  /\ selectedAnalyst = ""
  /\ selectedYear = 2025
  /\ selectedMonth = <<>>
  /\ selectedRecordForActions = <<>>
  /\ analysts = {[id |-> a, department |-> "SEO Analyst"] : a \in Analysts}
  /\ nextAnalyst = 3
  /\ argument = <<>>
  /\ kpi_definitions = {}
  /\ returned = <<>>
  /\ activeTab = "SEO Analyst"
  /\ editingId = 0
  /\ editValues = [monthly_target |-> 0, annual_target |-> 0]
  /\ newTarget = [kpi_name |-> "", monthly_target |-> 0, annual_target |-> 0,
                  role |-> "SEO Analyst"]
  /\ showAddModal = FALSE
  /\ kpiDefinitions = <<>>
  /\ annualEntered = [editValues |-> <<>>, newTarget |-> <<>>]
  /\ reportData = <<>>
  /\ performanceData = <<>>
  /\ roles = {}
  /\ rolesState = <<>>
  /\ toast = ""
  /\ formData = << EmptyForm(<<1, 0>>, 2025) >>
  /\ editingRecord = <<>>
  /\ showModal = FALSE
  /\ NoAuth

DialogFrame ==
  /\ UNCHANGED <<classifierVars, trendVars, generatorVars>>
  /\ UNCHANGED <<kpi_targets, selectedAnalyst, selectedYear, selectedMonth,
                 selectedRecordForActions>>
  /\ UNCHANGED <<analysts, nextAnalyst, kpi_definitions, returned, activeTab, editingId,
                 editValues, newTarget, showAddModal, kpiDefinitions, annualEntered,
                 reportData, performanceData, roles, rolesState>>
  /\ UNCHANGED authVars

\* The Add Record button: setShowModal(true)
ShowModal ==
  /\ ~showModal
  /\ showModal' = TRUE
  /\ op' = "setShowModal"
  /\ argument' = <<>>
  /\ UNCHANGED <<performance_records, nextId, performanceRecords, toast, formData,
                 editingRecord>>
  /\ DialogFrame

\* handleEdit(record) on a row of the table
HandleEdit ==
  /\ ~showModal
  /\ \E i \in 1..Len(performanceRecords) :
       /\ editingRecord' = << performanceRecords[i] >>
       /\ formData' = << FormOf(performanceRecords[i]) >>
  /\ showModal' = TRUE
  /\ op' = "handleEdit"
  /\ argument' = <<>>
  /\ UNCHANGED <<performance_records, nextId, performanceRecords, toast>>
  /\ DialogFrame

\* The onChange handlers of the dialog: setFormData({...formData, field: value})
SetFormData ==
  /\ showModal
  /\ \E change \in
         {<<"analyst_id", a>> : a \in Analysts} \cup {<<"month", m>> : m \in FormMonths}
           \cup {<<"year", y>> : y \in FormYears}
           \cup {<<"outreaches", v>> : v \in FormValues} :
       /\ formData[1][change[1]] # change[2]
       /\ formData' = << [formData[1] EXCEPT ![change[1]] = change[2]] >>
  /\ op' = "setFormData"
  /\ argument' = <<>>
  /\ UNCHANGED <<performance_records, nextId, performanceRecords, toast, editingRecord,
                 showModal>>
  /\ DialogFrame

\* The Cancel button: resetForm()
ResetForm ==
  /\ showModal
  /\ formData' = << EmptyForm(<<1, 0>>, 2025) >>
  /\ editingRecord' = <<>>
  /\ showModal' = FALSE
  /\ op' = "resetForm"
  /\ argument' = <<>>
  /\ UNCHANGED <<performance_records, nextId, performanceRecords, toast>>
  /\ DialogFrame

\* handleSubmit of the dialog (the analyst select is required, so the form
\* is not submitted without an analyst): the store call succeeds, or throws
\* as a failing store does.
SubmitDialog ==
  /\ showModal
  /\ formData[1].analyst_id # ""
  /\ argument' = formData
  /\ \E throws \in BOOLEAN :
       IF throws \/ formData[1].analyst_id \notin {a.id : a \in analysts}
         THEN LET after == SubmitFailed([formData |-> formData,
                                         editingRecord |-> editingRecord,
                                         showModal |-> showModal])
              IN  /\ op' = "handleSubmit: createOrUpdatePerformanceRecord throws"
                  /\ toast' = after.toast
                  /\ formData' = after.formData
                  /\ editingRecord' = after.editingRecord
                  /\ showModal' = after.showModal
                  /\ UNCHANGED <<performance_records, nextId, performanceRecords>>
         ELSE LET saved == Upsert(performance_records, nextId, formData[1])
              IN  /\ Cardinality(saved) <= MaxRecords
                  /\ op' = "handleSubmit"
                  /\ performance_records' = saved
                  /\ nextId' = IF Cardinality(saved) > Cardinality(performance_records)
                                 THEN nextId + 1 ELSE nextId
                  /\ toast' = "Performance record saved successfully"
                  /\ formData' = << EmptyForm(<<1, 0>>, 2025) >>
                  /\ editingRecord' = <<>>
                  /\ showModal' = FALSE
                  /\ \E records \in getPerformanceRecords(saved, selectedAnalyst) :
                       performanceRecords' =
                         FilteredRecords(records, selectedYear, selectedMonth)
  /\ DialogFrame

NextDialog ==
  \/ ShowModal
  \/ HandleEdit
  \/ SetFormData
  \/ ResetForm
  \/ SubmitDialog

SpecDialog == InitDialog /\ [][NextDialog]_vars

\* C22: when createOrUpdatePerformanceRecord fails, handleSubmit shows the
\* error notification and nothing else changes: the dialog stays open, the
\* form values and editingRecord are kept, the displayed list and the store
\* are as before, and the success notification is not shown.
C22_FailedSubmitKeepsForm ==
  [][ (op' = "handleSubmit: createOrUpdatePerformanceRecord throws") =>
        /\ toast' = "Failed to save performance record"
        /\ showModal /\ showModal'
        /\ formData' = formData
        /\ editingRecord' = editingRecord
        /\ performanceRecords' = performanceRecords
        /\ performance_records' = performance_records ]_vars

\* A failed save of an edited record after a save that succeeded: the error
\* notification replaced the success one and the dialog still holds the edit.
C22_Witness ==
  /\ op = "handleSubmit: createOrUpdatePerformanceRecord throws"
  /\ toast = "Failed to save performance record"
  /\ showModal
  /\ editingRecord # <<>>
  /\ formData[1].outreaches # editingRecord[1].outreaches
  /\ nextId > 6

\* C29: saving the form opened by handleEdit for record R changes at most R:
\* every other stored record is as before and the number of records is the
\* same.
C29_EditChangesOnlyThatRecord ==
  [][ (op' = "handleSubmit" /\ editingRecord # <<>>) =>
        /\ \A r \in performance_records :
             r.id # editingRecord[1].id => r \in performance_records'
        /\ Cardinality(performance_records') = Cardinality(performance_records) ]_vars

(***************************************************************************)
(* App, Layout and useAuth: the authentication gate and the navigation.    *)
(***************************************************************************)
\* Table admin_users with its default admin, and a deactivated one.
admin_users ==
  { [email |-> "vijay@edstellar", password_hash |-> "Edstellar@2025", name |-> "Vijay",
     is_active |-> TRUE],
    [email |-> "former@edstellar", password_hash |-> "Former@2024", name |-> "Former",
     is_active |-> FALSE] }

Emails == {u.email : u \in admin_users}

Passwords == {u.password_hash : u \in admin_users}

\* The password is not compared.
verifyAdminCredentials_AnyPassword(rows, email, password) ==
  LET data == {u \in rows : u.email = email /\ u.is_active}
  IN  IF data = {} THEN <<>> ELSE << CHOOSE u \in data : TRUE >>

\* authService.verifyAdminCredentials(email, password): << user >>, <<>> for null
verifyAdminCredentials(rows, email, password) ==
  LET data == {u \in rows : u.email = email /\ u.password_hash = password /\ u.is_active}
  IN  IF data = {} THEN <<>> ELSE << CHOOSE u \in data : TRUE >>

\* authService.getAdminByEmail(email)
getAdminByEmail(rows, email) ==
  LET data == {u \in rows : u.email = email /\ u.is_active}
  IN  IF data = {} THEN <<>> ELSE << CHOOSE u \in data : TRUE >>

NoSession == [isAuthenticated |-> None, userEmail |-> None, userName |-> None]

\* The ids of Layout's navigationItems.
navigationItems ==
  <<"dashboard", "analysts", "performance", "targets", "reports", "annual-reports">>

\* App.renderActiveComponent(): the component of the switch on activeTab
renderActiveComponent(tab) ==
  CASE tab = "dashboard" -> "Dashboard"
    [] tab = "analysts" -> "AnalystManagement"
    [] tab = "performance" -> "PerformanceTracking"
    [] tab = "targets" -> "TargetManagement"
    [] tab = "reports" -> "Reports"
    [] OTHER -> "Dashboard"

\* What App returns: the spinner, <Login /> or the main application; nothing
\* is left on the page after an error thrown in App.
ViewOf(app, error) ==
  IF error THEN "error"
  ELSE IF app.loading THEN "loading"
  ELSE IF ~app.isAuthenticated THEN "login"
  ELSE "main"

HookState(h) ==
  [isAuthenticated |-> isAuthenticated[h], currentUser |-> currentUser[h],
   loading |-> loading[h], pending |-> pending[h]]

View == ViewOf(HookState("App"), appError)

\* The hook instance of a component that is not rendered.
Unmounted == [isAuthenticated |-> FALSE, currentUser |-> <<>>, loading |-> TRUE,
              pending |-> <<>>]

\* A hook instance after its first render and the run of checkAuthStatus up
\* to its await, or to its end when it awaits nothing.
StartHook(storage) ==
  IF storage.isAuthenticated = "true" /\ storage.userEmail # None
    THEN [isAuthenticated |-> FALSE, currentUser |-> <<>>, loading |-> TRUE,
          pending |-> << [call |-> "getAdminByEmail",
                          authStatus |-> storage.isAuthenticated,
                          email |-> storage.userEmail] >>]
    ELSE [isAuthenticated |-> FALSE, currentUser |-> <<>>, loading |-> FALSE,
          pending |-> <<>>]

\* The component that calls useAuth() within a view of App.
ChildOf(view) ==
  CASE view = "login" -> "Login" [] view = "main" -> "Layout" [] OTHER -> "none"

\* The hook instances after App rendered with the state app: the child of
\* the view is mounted when the view changed to it, and kept when it did not.
Rendered(app, hooks, error, storage) ==
  [h \in Hooks |->
     IF h = "App" THEN app
     ELSE IF ChildOf(ViewOf(app, error)) # h THEN Unmounted
     ELSE IF ChildOf(View) = h THEN hooks[h]
     ELSE StartHook(storage)]

SetHooks(hooks) ==
  /\ isAuthenticated' = [h \in Hooks |-> hooks[h].isAuthenticated]
  /\ currentUser' = [h \in Hooks |-> hooks[h].currentUser]
  /\ loading' = [h \in Hooks |-> hooks[h].loading]
  /\ pending' = [h \in Hooks |-> hooks[h].pending]

Hooked == [h \in Hooks |-> HookState(h)]

\* The sessions a page is loaded with.
StoredSessions ==
  { NoSession,
    [isAuthenticated |-> "true", userEmail |-> "vijay@edstellar", userName |-> "Vijay"],
    [isAuthenticated |-> "true", userEmail |-> "former@edstellar", userName |-> "Former"],
    [isAuthenticated |-> "true", userEmail |-> None, userName |-> None] }

InitApp ==
  /\ op = "App"
  /\ NoClassifier /\ NoTrend /\ NoGenerator /\ NoStore
  /\ analysts = {}
  /\ nextAnalyst = 1
  /\ argument = <<>>
  /\ kpi_definitions = {}
  /\ returned = <<>>
  /\ activeTab = "dashboard"
  /\ editingId = 0
  /\ editValues = [monthly_target |-> 0, annual_target |-> 0]
  /\ newTarget = [kpi_name |-> "", monthly_target |-> 0, annual_target |-> 0,
                  role |-> "SEO Analyst"]
  /\ showAddModal = FALSE
  /\ kpiDefinitions = <<>>
  /\ annualEntered = [editValues |-> <<>>, newTarget |-> <<>>]
  /\ reportData = <<>>
  /\ performanceData = <<>>
  /\ roles = {}
  /\ rolesState = <<>>
  /\ toast = ""
  /\ formData = <<>>
  /\ editingRecord = <<>>
  /\ showModal = FALSE
  /\ localStorage \in StoredSessions
  /\ timers = {}
  /\ appError = FALSE
  /\ LET hooks == [h \in Hooks |->
                     IF h = "App" THEN StartHook(localStorage)
                     ELSE IF h = "Login" /\ ~StartHook(localStorage).loading
                       THEN StartHook(localStorage)
                       ELSE Unmounted]
     IN  /\ isAuthenticated = [h \in Hooks |-> hooks[h].isAuthenticated]
         /\ currentUser = [h \in Hooks |-> hooks[h].currentUser]
         /\ loading = [h \in Hooks |-> hooks[h].loading]
         /\ pending = [h \in Hooks |-> hooks[h].pending]

AppFrame ==
  /\ UNCHANGED <<classifierVars, trendVars, generatorVars, storeVars, viewVars>>
  /\ UNCHANGED <<analysts, nextAnalyst, kpi_definitions, editingId, editValues, newTarget,
                 showAddModal, kpiDefinitions, annualEntered, reportData>>
  /\ UNCHANGED <<performanceData, roles, rolesState, formData, editingRecord, showModal>>

\* checkAuthStatus after its await: authService.getAdminByEmail has returned
\* the active admin of the stored email, or null (also when the query
\* failed).  For App the effect on [isAuthenticated] runs after the render:
\* its call of setIsAuthenticated, a name App does not define, throws.
CheckAuthStatus ==
  /\ ~appError
  /\ \E h \in Hooks, failed \in BOOLEAN :
       /\ pending[h] # <<>>
       /\ pending[h][1].call = "getAdminByEmail"
       /\ LET user == IF failed THEN <<>>
                      ELSE getAdminByEmail(admin_users, pending[h][1].email)
              hook == IF user # <<>>
                        THEN [isAuthenticated |-> TRUE, currentUser |-> user,
                              loading |-> FALSE, pending |-> <<>>]
                        ELSE [isAuthenticated |-> FALSE, currentUser |-> <<>>,
                              loading |-> FALSE, pending |-> <<>>]
              storage == IF user # <<>> THEN localStorage ELSE NoSession
              error == h = "App" /\ hook.isAuthenticated /\ storage.isAuthenticated # "true"
              hooks == [Hooked EXCEPT ![h] = hook]
          IN  /\ argument' = << [hook |-> h] @@ pending[h][1] >>
              /\ returned' = user
              /\ localStorage' = storage
              /\ timers' = IF user # <<>> THEN timers ELSE timers \cup {"reload"}
              /\ appError' = error
              /\ SetHooks(Rendered(hooks["App"], hooks, error, storage))
  /\ op' = "checkAuthStatus"
  /\ UNCHANGED <<activeTab, toast>>
  /\ AppFrame

\* login(email, password) up to its await of verifyAdminCredentials
Login ==
  /\ View = "login"
  /\ pending["Login"] = <<>>
  /\ \E email \in Emails, password \in Passwords :
       /\ pending' = [pending EXCEPT !["Login"] =
                        << [call |-> "verifyAdminCredentials", email |-> email,
                            password |-> password] >>]
       /\ argument' = << [email |-> email, password |-> password] >>
  /\ returned' = <<>>
  /\ op' = "login"
  /\ UNCHANGED <<isAuthenticated, currentUser, loading, localStorage, timers, appError,
                 activeTab, toast>>
  /\ AppFrame

\* login after verifyAdminCredentials returned: with a user the session is
\* stored and the 200 ms delay begins; without one login returns false.
LoginVerified ==
  /\ pending["Login"] # <<>>
  /\ pending["Login"][1].call = "verifyAdminCredentials"
  /\ \E failed \in BOOLEAN :
       LET user == IF failed THEN <<>>
                   ELSE verifyAdminCredentials(admin_users, pending["Login"][1].email,
                                               pending["Login"][1].password)
       IN  /\ argument' = pending["Login"]
           /\ IF user # <<>>
                THEN /\ localStorage' = [isAuthenticated |-> "true",
                                         userEmail |-> user[1].email,
                                         userName |-> user[1].name]
                     /\ currentUser' = [currentUser EXCEPT !["Login"] = user]
                     /\ isAuthenticated' = [isAuthenticated EXCEPT !["Login"] = TRUE]
                     /\ pending' = [pending EXCEPT !["Login"] = << [call |-> "setTimeout"] >>]
                     /\ returned' = user
                     /\ op' = "login: user"
                     /\ UNCHANGED toast
                ELSE /\ toast' = "Invalid credentials"
                     /\ pending' = [pending EXCEPT !["Login"] = <<>>]
                     /\ returned' = << FALSE >>
                     /\ op' = "login: rejected"
                     /\ UNCHANGED <<localStorage, currentUser, isAuthenticated>>
  /\ UNCHANGED <<loading, timers, appError, activeTab>>
  /\ AppFrame

\* login after its delay: the check that the flag is still stored
LoginPersisted ==
  /\ pending["Login"] # <<>>
  /\ pending["Login"][1].call = "setTimeout"
  /\ pending' = [pending EXCEPT !["Login"] = <<>>]
  /\ IF localStorage.isAuthenticated = "true"
       THEN /\ isAuthenticated' = [isAuthenticated EXCEPT !["Login"] = TRUE]
            /\ returned' = << TRUE >>
            /\ UNCHANGED toast
       ELSE /\ toast' = "Login failed to persist. Please try again."
            /\ returned' = << FALSE >>
            /\ UNCHANGED isAuthenticated
  /\ op' = "login: returns"
  /\ UNCHANGED <<argument, currentUser, loading, localStorage, timers, appError, activeTab>>
  /\ AppFrame

\* The session keys are left in localStorage.
HandleLogout_KeepsKeys ==
  /\ View = "main"
  /\ \E confirmed \in BOOLEAN :
       /\ argument' = << [confirmed |-> confirmed] >>
       /\ IF confirmed
            THEN /\ currentUser' = [currentUser EXCEPT !["Layout"] = <<>>]
                 /\ isAuthenticated' = [isAuthenticated EXCEPT !["Layout"] = FALSE]
                 /\ timers' = timers \cup {"reload", "href"}
                 /\ UNCHANGED localStorage
            ELSE UNCHANGED <<localStorage, currentUser, isAuthenticated, timers>>
  /\ returned' = <<>>
  /\ op' = "handleLogout"
  /\ UNCHANGED <<loading, pending, appError, activeTab, toast>>
  /\ AppFrame

\* Layout.handleLogout(): window.confirm, then localStorage.clear(), logout()
\* of Layout's hook instance and the two timers.
HandleLogout ==
  /\ View = "main"
  /\ \E confirmed \in BOOLEAN :
       /\ argument' = << [confirmed |-> confirmed] >>
       /\ IF confirmed
            THEN /\ localStorage' = NoSession
                 /\ currentUser' = [currentUser EXCEPT !["Layout"] = <<>>]
                 /\ isAuthenticated' = [isAuthenticated EXCEPT !["Layout"] = FALSE]
                 /\ timers' = timers \cup {"reload", "href"}
            ELSE UNCHANGED <<localStorage, currentUser, isAuthenticated, timers>>
  /\ returned' = <<>>
  /\ op' = "handleLogout"
  /\ UNCHANGED <<loading, pending, appError, activeTab, toast>>
  /\ AppFrame

\* The page is loaded again and App is mounted: every state starts anew.
PageLoad ==
  /\ timers' = {}
  /\ appError' = FALSE
  /\ activeTab' = "dashboard"
  /\ toast' = ""
  /\ argument' = <<>>
  /\ returned' = <<>>
  /\ SetHooks([h \in Hooks |->
                 IF h = "App" THEN StartHook(localStorage)
                 ELSE IF h = "Login" /\ ~StartHook(localStorage).loading
                   THEN StartHook(localStorage)
                   ELSE Unmounted])
  /\ UNCHANGED localStorage
  /\ AppFrame

\* A timer of logout or handleLogout fires: window.location.reload(), or
\* window.location.href = window.location.origin.
Reload ==
  /\ timers # {}
  /\ op' = "window.location.reload"
  /\ PageLoad

\* The user loads the page again.
UserReload ==
  /\ timers = {}
  /\ op # "App"
  /\ op' = "page load"
  /\ PageLoad

\* The session keys are removed from outside the application (the user
\* clears the site data).
ClearLocalStorage ==
  /\ localStorage # NoSession
  /\ localStorage' = NoSession
  /\ op' = "localStorage.clear"
  /\ UNCHANGED <<argument, returned, isAuthenticated, currentUser, loading, pending,
                 timers, appError, activeTab, toast>>
  /\ AppFrame

\* A navigation button of Layout: onTabChange(item.id), App's setActiveTab
OnTabChange ==
  /\ View = "main"
  /\ \E i \in 1..Len(navigationItems) :
       /\ activeTab' = navigationItems[i]
       /\ argument' = << [id |-> navigationItems[i]] >>
  /\ returned' = <<>>
  /\ op' = "onTabChange"
  /\ UNCHANGED <<isAuthenticated, currentUser, loading, pending, localStorage, timers,
                 appError, toast>>
  /\ AppFrame

NextApp ==
  \/ CheckAuthStatus
  \/ Login
  \/ LoginVerified
  \/ LoginPersisted
  \/ HandleLogout
  \/ Reload
  \/ UserReload
  \/ ClearLocalStorage
  \/ OnTabChange

SpecApp == InitApp /\ [][NextApp]_vars

\* The timers of the browser fire.
SpecAppFair == SpecApp /\ WF_vars(Reload)

\* C24: when App's isAuthenticated becomes true while the stored flag is not
\* 'true', App neither fails with an error nor renders the main application,
\* and from then on it comes to render the login view unauthenticated.
C24_MismatchForcesLogout ==
  [][(~isAuthenticated["App"] /\ isAuthenticated'["App"]
        /\ localStorage'.isAuthenticated # "true")
       => (~appError' /\ View' # "main")]_vars

\* An active row of admin_users with this email and this password.
ActiveAdmin(u, email, password) ==
  u \in admin_users /\ u.is_active /\ u.email = email /\ u.password_hash = password

\* C25: a hook instance becomes authenticated only in login, with the active
\* admin whose email and password were submitted, or in the startup check
\* that read the flag 'true' and a stored email of an active admin; a login
\* whose credentials match no active admin returns false and leaves
\* localStorage, currentUser and isAuthenticated as they were.
C25_GateAdmitsVerifiedSessions ==
  [][/\ \A h \in Hooks :
          (~isAuthenticated[h] /\ isAuthenticated'[h]) =>
            /\ pending[h] # <<>>
            /\ currentUser'[h] # <<>>
            /\ \/ /\ pending[h][1].call = "verifyAdminCredentials"
                  /\ ActiveAdmin(currentUser'[h][1], pending[h][1].email,
                                 pending[h][1].password)
               \/ /\ pending[h][1].call = "getAdminByEmail"
                  /\ pending[h][1].authStatus = "true"
                  /\ currentUser'[h][1] \in admin_users
                  /\ currentUser'[h][1].is_active
                  /\ currentUser'[h][1].email = pending[h][1].email
     /\ (/\ pending["Login"] # <<>>
         /\ pending["Login"][1].call = "verifyAdminCredentials"
         /\ op' \in {"login: user", "login: rejected"}
         /\ \A u \in admin_users :
              ~ActiveAdmin(u, pending["Login"][1].email, pending["Login"][1].password))
          => /\ returned' = << FALSE >>
             /\ UNCHANGED <<localStorage, currentUser, isAuthenticated>>]_vars

\* A login with the email of the active admin and another password was
\* rejected.
C25_Witness ==
  /\ op = "login: rejected"
  /\ argument[1].email = "vijay@edstellar"
  /\ argument[1].password # "Edstellar@2025"
  /\ returned = << FALSE >>
  /\ ~isAuthenticated["Login"]

LogoutConfirmed == op = "handleLogout" /\ argument[1].confirmed

\* C26: a confirmed logout leaves none of the three session keys in
\* localStorage and leads to the login view; the login view is left only
\* with a stored session, and a session is stored only by a login that
\* obtained a user; a cancelled confirmation changes nothing.
C26_LogoutLeadsToLogin ==
  /\ [][(op' = "handleLogout" /\ argument'[1].confirmed) => localStorage' = NoSession]_vars
  /\ [][(op' = "handleLogout" /\ ~argument'[1].confirmed)
          => UNCHANGED <<authVars, activeTab, toast>>]_vars
  /\ LogoutConfirmed ~> (View = "login" /\ localStorage = NoSession)
  /\ [][(View = "login" /\ View' # "login")
          => (localStorage.isAuthenticated = "true" /\ localStorage.userEmail # None)]_vars
  /\ [][(localStorage' # localStorage /\ localStorage' # NoSession)
          => op' = "login: user"]_vars

\* The logout was confirmed, the keys are gone and both timers are set.
C26_Witness ==
  /\ LogoutConfirmed
  /\ localStorage = NoSession
  /\ timers = {"reload", "href"}
  /\ View = "main"

\* C27: selecting a navigation item sets activeTab to its id, no two items
\* render the same view, and Dashboard is rendered only for 'dashboard'.
C27_EachItemItsOwnView ==
  View = "main" =>
    /\ op = "onTabChange" => activeTab = argument[1].id
    /\ renderActiveComponent(activeTab) = "Dashboard" => activeTab = "dashboard"
    /\ \A i, j \in 1..Len(navigationItems) :
         i # j => renderActiveComponent(navigationItems[i])
                    # renderActiveComponent(navigationItems[j])

====
